---- MODULE Spec2Model ----
(***************************************************************************)
(* Verification model of the inky-soup upload server core:                 *)
(*   - image_locks.rs : per-image edit locks with time-to-live             *)
(*   - flash_queue.rs : the flash job queue and its background worker      *)
(*   - main.rs        : the request handlers that gate on the locks        *)
(***************************************************************************)
EXTENDS Integers, Sequences, FiniteSets, TLC

VARIABLES
    \* image_locks.rs
    locks,          \* HashMap<String, ImageLock>: filename -> [session_id, expires_at]
    instant,        \* Instant::now(), in seconds (monotonic clock)
    env_lock_secs,  \* LOCK_DURATION_SECS environment variable (NoneOpt when unset)
    lock_ret,       \* the last image_locks call and what it returned
    \* main.rs upload handlers
    dithered_files, \* images/dithered/<name>.png : filename -> the file exists
    cache_files,    \* images/cache/<name>.png    : filename -> the file exists
    upload_req,     \* the upload request suspended between its lock check and its write
    upload_ret,     \* the last upload response
    \* flash_queue.rs
    flash_queue,    \* Mutex<FlashQueue>: current_job, queue, recent_jobs, next_job_id
    now_ms,         \* current_time_millis(): the system clock in milliseconds
    queue_ret,      \* the last FlashQueue call and what it returned
    issued,         \* history: the job ids returned by enqueue, in call order
    started,        \* history: the job ids returned by dequeue, in call order
    flashing,       \* history: the jobs handed out by dequeue and not yet marked
    \* main.rs flash endpoints
    flash_req,      \* the flash request suspended between its lock check and its enqueue
    flash_ret,      \* the last response of a flash endpoint
    \* flash_queue.rs: spawn_flash_worker
    queue_mutex,    \* who holds the Mutex around the FlashQueue ("free" when nobody)
    worker_pc,      \* the position of the worker task in its loop
    worker_job,     \* the worker's local `job`: what dequeue returned
    worker_result,  \* the worker's local `result`: what execute_flash returned
    outcomes,       \* history: how each invocation of the command for worker_job ended
    \* main.rs: lock_image as two steps
    lock_req,       \* the lock request suspended between try_acquire_lock and the read for its response
    lock_resp,      \* the last response of the lock endpoint
    unlock_resp,    \* the last response of the unlock endpoint
    \* cache_worker.rs
    cache_present,  \* static/images/cache/<name>.png exists, as a set of image numbers
    cache_missing0, \* history: the images that had no cache file at startup
    scan_pc,        \* the position of scan_and_repair_caches: "scan", "send" or "done"
    scan_pos,       \* the index of the glob entry the scan looks at next
    cache_chan,     \* the mpsc channel: requests sent and not yet received
    cache_busy,     \* the request the cache worker received and is working on
    cache_sent,     \* history: the requests the channel accepted, in order
    cache_taken,    \* history: the requests the worker received, in order
    cache_senders,  \* the Sender handles of the channel that are alive
    cache_rx,       \* the Receiver of the channel: "open", or "closed" once it is dropped
    scan_dropped,   \* history: the requests whose send returned an error, in order
    cache_results   \* history: how the worker's handling of each request ended, in order

lockVars == <<locks, instant, env_lock_secs, lock_ret>>
uploadVars == <<dithered_files, cache_files, upload_req, upload_ret>>
flashVars == <<flash_queue, now_ms, queue_ret, issued, started, flashing>>
endpointVars == <<flash_req, flash_ret>>
workerVars == <<queue_mutex, worker_pc, worker_job, worker_result, outcomes>>
lockEndpointVars == <<lock_req, lock_resp, unlock_resp>>
cacheVars == <<cache_present, cache_missing0, scan_pc, scan_pos, cache_chan, cache_busy,
               cache_sent, cache_taken, cache_senders, cache_rx, scan_dropped,
               cache_results>>
vars == <<locks, instant, env_lock_secs, lock_ret,
          dithered_files, cache_files, upload_req, upload_ret,
          flash_queue, now_ms, queue_ret, issued, started, flashing,
          flash_req, flash_ret,
          queue_mutex, worker_pc, worker_job, worker_result, outcomes,
          lock_req, lock_resp, unlock_resp,
          cache_present, cache_missing0, scan_pc, scan_pos, cache_chan, cache_busy,
          cache_sent, cache_taken, cache_senders, cache_rx, scan_dropped, cache_results>>

----------------------------------------------------------------------------
(* Bounds and input sets *)

\* Sanitized file names used as lock keys.
Keys == {"a.png", "b.png"}
\* Client session ids.
Sessions == {"s1", "s2"}
\* Number of clock ticks the model lets pass.
MaxTicks == 3
\* Number of flash jobs the model lets be enqueued.
MaxJobs == 2
\* Number of ticks of the system clock the flash queue is followed over.
MaxFlashTicks == 2

\* Option<T>: None is the empty sequence, Some(x) the one-element sequence.
NoneOpt == <<>>
Some(x) == <<x>>
IsSome(o) == o # <<>>
Unwrap(o) == o[1]

\* A string that is no file name and no session id.
None == "none"

----------------------------------------------------------------------------
(* image_locks.rs *)

LOCK_DURATION_SECS == 30

\* The clock advances in steps of half the default lock duration, so that a
\* lock is seen strictly before, exactly at and after its expiry instant.
TickSecs == LOCK_DURATION_SECS \div 2

\* Values of the LOCK_DURATION_SECS environment variable.
EnvValues == {NoneOpt, Some(TickSecs)}

get_lock_duration_secs ==
    IF IsSome(env_lock_secs) THEN Unwrap(env_lock_secs) ELSE LOCK_DURATION_SECS

ImageLock(session_id, expires_at) ==
    [session_id |-> session_id, expires_at |-> expires_at]

\* Mutant of Retain: entries that expire within the next tick are purged too.
Retain_PurgesEarly(m, now) ==
    [k \in {x \in DOMAIN m : m[x].expires_at > now + TickSecs} |-> m[k]]

\* Mutant of Retain: the purge drops every entry, expired or not.
Retain_KeepsNone(m, now) ==
    [k \in {x \in DOMAIN m : FALSE} |-> m[k]]

\* locks_map.retain(|_, lock| lock.expires_at > now)
Retain(m, now) ==
    [k \in {x \in DOMAIN m : m[x].expires_at > now} |-> m[k]]

\* locks_map.insert(filename, lock)
Insert(m, k, v) ==
    [x \in DOMAIN m \cup {k} |-> IF x = k THEN v ELSE m[x]]

\* locks_map.remove(filename)
Remove(m, k) ==
    [x \in DOMAIN m \ {k} |-> m[x]]

\* Mutants of try_acquire_lock.
\* A different session takes the lock over instead of being denied.
try_acquire_lock_TakesOver(m, now, filename, session_id, refresh_only) ==
    LET locks_map == Retain(m, now) IN
    IF filename \in DOMAIN locks_map /\ refresh_only
    THEN [locks |-> locks_map, ok |-> locks_map[filename].session_id = session_id]
    ELSE IF refresh_only
         THEN [locks |-> locks_map, ok |-> FALSE]
         ELSE [locks |-> Insert(locks_map, filename,
                                ImageLock(session_id, now + get_lock_duration_secs)),
               ok |-> TRUE]

\* The refresh_only flag is ignored: a keepalive creates the lock.
try_acquire_lock_RefreshCreates(m, now, filename, session_id, refresh_only) ==
    LET locks_map == Retain(m, now) IN
    IF filename \in DOMAIN locks_map /\ locks_map[filename].session_id # session_id
    THEN [locks |-> locks_map, ok |-> FALSE]
    ELSE [locks |-> Insert(locks_map, filename,
                           ImageLock(session_id, now + get_lock_duration_secs)),
          ok |-> TRUE]

\* A refresh adds the duration to the old expiry instead of to now.
try_acquire_lock_ExtendsOld(m, now, filename, session_id, refresh_only) ==
    LET locks_map == Retain(m, now) IN
    IF filename \in DOMAIN locks_map
    THEN IF locks_map[filename].session_id = session_id
         THEN [locks |-> Insert(locks_map, filename,
                                ImageLock(session_id, locks_map[filename].expires_at
                                                      + get_lock_duration_secs)),
               ok |-> TRUE]
         ELSE [locks |-> locks_map, ok |-> FALSE]
    ELSE IF refresh_only
         THEN [locks |-> locks_map, ok |-> FALSE]
         ELSE [locks |-> Insert(locks_map, filename,
                                ImageLock(session_id, now + get_lock_duration_secs)),
               ok |-> TRUE]

\* Expired entries are not purged before the check.
try_acquire_lock_NoPurge(m, now, filename, session_id, refresh_only) ==
    IF filename \in DOMAIN m
    THEN IF m[filename].session_id = session_id
         THEN [locks |-> Insert(m, filename,
                                ImageLock(session_id, now + get_lock_duration_secs)),
               ok |-> TRUE]
         ELSE [locks |-> m, ok |-> FALSE]
    ELSE IF refresh_only
         THEN [locks |-> m, ok |-> FALSE]
         ELSE [locks |-> Insert(m, filename,
                                ImageLock(session_id, now + get_lock_duration_secs)),
               ok |-> TRUE]

\* try_acquire_lock: the new map and the returned Ok(bool).
try_acquire_lock(m, now, filename, session_id, refresh_only) ==
    LET locks_map == Retain(m, now) IN
    IF filename \in DOMAIN locks_map
    THEN IF locks_map[filename].session_id = session_id
         THEN [locks |-> Insert(locks_map, filename,
                                ImageLock(session_id, now + get_lock_duration_secs)),
               ok |-> TRUE]
         ELSE [locks |-> locks_map, ok |-> FALSE]
    ELSE IF refresh_only
         THEN [locks |-> locks_map, ok |-> FALSE]
         ELSE [locks |-> Insert(locks_map, filename,
                                ImageLock(session_id, now + get_lock_duration_secs)),
               ok |-> TRUE]

\* Mutant of release_lock: any session may release.
release_lock_AnyOwner(m, filename, session_id) ==
    [locks |-> Remove(m, filename), ok |-> TRUE]

\* release_lock: no purge; only the owner removes the entry.
release_lock(m, filename, session_id) ==
    IF filename \in DOMAIN m
    THEN IF m[filename].session_id = session_id
         THEN [locks |-> Remove(m, filename), ok |-> TRUE]
         ELSE [locks |-> m, ok |-> FALSE]
    ELSE [locks |-> m, ok |-> TRUE]

\* Mutant of verify_lock_ownership: expired entries are not purged first.
verify_lock_ownership_NoPurge(m, now, filename, session_id) ==
    IF filename \in DOMAIN m
    THEN [locks |-> m, ok |-> m[filename].session_id = session_id]
    ELSE [locks |-> m, ok |-> FALSE]

\* verify_lock_ownership: purge, then compare the owner.
verify_lock_ownership(m, now, filename, session_id) ==
    LET locks_map == Retain(m, now) IN
    IF filename \in DOMAIN locks_map
    THEN [locks |-> locks_map, ok |-> locks_map[filename].session_id = session_id]
    ELSE [locks |-> locks_map, ok |-> FALSE]

\* expires_at.saturating_duration_since(now).as_secs()
SaturatingSince(expires_at, now) ==
    IF expires_at > now THEN expires_at - now ELSE 0

\* Mutant of get_lock_remaining_secs: the difference is not saturated at 0.
get_lock_remaining_secs_Unsaturated(m, now, filename) ==
    IF filename \in DOMAIN m
    THEN Some(m[filename].expires_at - now)
    ELSE NoneOpt

\* get_lock_remaining_secs: non-mutating, Some(secs) or None.
get_lock_remaining_secs(m, now, filename) ==
    IF filename \in DOMAIN m
    THEN Some(SaturatingSince(m[filename].expires_at, now))
    ELSE NoneOpt

\* The entry of filename in the map, as an Option.
Get(m, filename) ==
    IF filename \in DOMAIN m THEN Some(m[filename]) ELSE NoneOpt

\* The record of a call: its arguments, the instant it read, the entry it found
\* for filename on entry, the Ok(bool) it returned (result) and, for
\* get_lock_remaining_secs, the Option<u64> it returned (remaining).
LockRet(op, filename, session_id, refresh_only, result, remaining) ==
    [op |-> op, filename |-> filename, session_id |-> session_id,
     refresh_only |-> refresh_only, result |-> result, remaining |-> remaining,
     found |-> Get(locks, filename), at |-> instant]

NoCall ==
    [op |-> "none", filename |-> None, session_id |-> None,
     refresh_only |-> FALSE, result |-> FALSE, remaining |-> NoneOpt,
     found |-> NoneOpt, at |-> 0]

\* A call of try_acquire_lock(filename, session_id, refresh_only).
TryAcquireLock(filename, session_id, refresh_only) ==
    LET o == try_acquire_lock(locks, instant, filename, session_id, refresh_only) IN
    /\ locks' = o.locks
    /\ lock_ret' = LockRet("try_acquire_lock", filename, session_id, refresh_only,
                           o.ok, NoneOpt)
    /\ UNCHANGED <<instant, env_lock_secs>>
    /\ UNCHANGED uploadVars
    /\ UNCHANGED flashVars
    /\ UNCHANGED endpointVars
    /\ UNCHANGED workerVars
    /\ UNCHANGED lockEndpointVars
    /\ UNCHANGED cacheVars

\* A call of release_lock(filename, session_id).
ReleaseLock(filename, session_id) ==
    LET o == release_lock(locks, filename, session_id) IN
    /\ locks' = o.locks
    /\ lock_ret' = LockRet("release_lock", filename, session_id, FALSE, o.ok, NoneOpt)
    /\ UNCHANGED <<instant, env_lock_secs>>
    /\ UNCHANGED uploadVars
    /\ UNCHANGED flashVars
    /\ UNCHANGED endpointVars
    /\ UNCHANGED workerVars
    /\ UNCHANGED lockEndpointVars
    /\ UNCHANGED cacheVars

\* A call of verify_lock_ownership(filename, session_id).
VerifyLockOwnership(filename, session_id) ==
    LET o == verify_lock_ownership(locks, instant, filename, session_id) IN
    /\ locks' = o.locks
    /\ lock_ret' = LockRet("verify_lock_ownership", filename, session_id, FALSE,
                           o.ok, NoneOpt)
    /\ UNCHANGED <<instant, env_lock_secs>>
    /\ UNCHANGED uploadVars
    /\ UNCHANGED flashVars
    /\ UNCHANGED endpointVars
    /\ UNCHANGED workerVars
    /\ UNCHANGED lockEndpointVars
    /\ UNCHANGED cacheVars

\* A call of get_lock_remaining_secs(filename).
GetLockRemainingSecs(filename) ==
    /\ lock_ret' = LockRet("get_lock_remaining_secs", filename, None, FALSE, FALSE,
                           get_lock_remaining_secs(locks, instant, filename))
    /\ UNCHANGED <<locks, instant, env_lock_secs>>
    /\ UNCHANGED uploadVars
    /\ UNCHANGED flashVars
    /\ UNCHANGED endpointVars
    /\ UNCHANGED workerVars
    /\ UNCHANGED lockEndpointVars
    /\ UNCHANGED cacheVars

\* Time passes on the monotonic clock.
Tick ==
    /\ instant < MaxTicks * TickSecs
    /\ instant' = instant + TickSecs
    /\ UNCHANGED <<locks, env_lock_secs, lock_ret>>
    /\ UNCHANGED uploadVars
    /\ UNCHANGED flashVars
    /\ UNCHANGED endpointVars
    /\ UNCHANGED workerVars
    /\ UNCHANGED lockEndpointVars
    /\ UNCHANGED cacheVars

EmptyMap == [k \in {} |-> ImageLock(None, 0)]

InitUploads ==
    /\ dithered_files = [k \in Keys |-> FALSE]
    /\ cache_files = [k \in Keys |-> FALSE]
    /\ upload_req = NoneOpt
    /\ upload_ret = NoneOpt

\* main.rs:1379: the lock map starts empty.
InitLocks ==
    /\ locks = EmptyMap
    /\ instant = 0
    /\ env_lock_secs \in EnvValues
    /\ lock_ret = NoCall

NextLocks ==
    \/ \E k \in Keys, s \in Sessions, r \in BOOLEAN : TryAcquireLock(k, s, r)
    \/ \E k \in Keys, s \in Sessions : ReleaseLock(k, s)
    \/ \E k \in Keys, s \in Sessions : VerifyLockOwnership(k, s)
    \/ \E k \in Keys : GetLockRemainingSecs(k)
    \/ Tick

----------------------------------------------------------------------------
(* main.rs: the lock and upload endpoints *)

\* A raw file name of a request is the sequence of its components between
\* the separators '/' and '\'.  Names that begin with a dot:
DotNames == {".", "..", ".hidden"}

\* Raw file names sent to the lock endpoints.
LockRawNames == {<<"a.png">>, <<"up", "b.png">>, <<"a.png", "..">>}

\* Raw file names sent to the upload endpoints.
UploadRawNames == {<<"a.png">>, <<"..", "a.png">>, <<".hidden">>, <<"">>}

\* sanitize_filename: the last component, unless it is empty or begins with a dot.
sanitize_filename(raw) ==
    LET name == raw[Len(raw)] IN
    IF name = "" \/ name = "." \/ name = ".." THEN NoneOpt
    ELSE IF name \in DotNames THEN NoneOpt
    ELSE Some(name)

\* The session_id form field of an upload: Option<String>.
OptSessions == {NoneOpt} \cup {Some(s) : s \in Sessions}

UploadReq(handler, filename, session_id, settings) ==
    [handler |-> handler, filename |-> filename, session_id |-> session_id,
     settings |-> settings]

UploadRet(success, message) ==
    [success |-> success, message |-> message]

\* POST /api/lock-image: try_acquire_lock, then a read-only
\* get_lock_remaining_secs for the response.
LockImage(raw, session_id, refresh_only) ==
    /\ IsSome(sanitize_filename(raw))
    /\ locks' = try_acquire_lock(locks, instant, Unwrap(sanitize_filename(raw)),
                                 session_id, refresh_only).locks
    /\ UNCHANGED <<instant, env_lock_secs, lock_ret>>
    /\ UNCHANGED uploadVars
    /\ UNCHANGED flashVars
    /\ UNCHANGED endpointVars
    /\ UNCHANGED workerVars
    /\ UNCHANGED lockEndpointVars
    /\ UNCHANGED cacheVars

\* POST /api/unlock-image: release_lock.
UnlockImage(raw, session_id) ==
    /\ IsSome(sanitize_filename(raw))
    /\ locks' = release_lock(locks, Unwrap(sanitize_filename(raw)), session_id).locks
    /\ UNCHANGED <<instant, env_lock_secs, lock_ret>>
    /\ UNCHANGED uploadVars
    /\ UNCHANGED flashVars
    /\ UNCHANGED endpointVars
    /\ UNCHANGED workerVars
    /\ UNCHANGED lockEndpointVars
    /\ UNCHANGED cacheVars

\* Mutant of UploadGate: the result of verify_lock_ownership is ignored.
UploadGate_Unchecked(handler, raw, session_id, settings) ==
    LET name == sanitize_filename(raw) IN
    IF ~IsSome(name)
    THEN /\ upload_ret' = Some(UploadRet(FALSE, "Invalid filename"))
         /\ UNCHANGED <<locks, upload_req>>
    ELSE /\ locks' = IF IsSome(session_id)
                     THEN verify_lock_ownership(locks, instant, Unwrap(name),
                                                Unwrap(session_id)).locks
                     ELSE locks
         /\ upload_req' = Some(UploadReq(handler, Unwrap(name), session_id, settings))
         /\ UNCHANGED upload_ret

\* The first part of upload_dithered and upload_cache, up to the file copy:
\* sanitize the name, then verify the lock if a session id was sent.
UploadGate(handler, raw, session_id, settings) ==
    LET name == sanitize_filename(raw) IN
    IF ~IsSome(name)
    THEN /\ upload_ret' = Some(UploadRet(FALSE, "Invalid filename"))
         /\ UNCHANGED <<locks, upload_req>>
    ELSE IF IsSome(session_id)
         THEN LET o == verify_lock_ownership(locks, instant, Unwrap(name),
                                             Unwrap(session_id)) IN
              /\ locks' = o.locks
              /\ IF ~o.ok
                 THEN /\ upload_ret' = Some(UploadRet(FALSE,
                                            "You do not have edit access to this image"))
                      /\ UNCHANGED upload_req
                 ELSE /\ upload_req' = Some(UploadReq(handler, Unwrap(name),
                                                      session_id, settings))
                      /\ UNCHANGED upload_ret
         ELSE /\ upload_req' = Some(UploadReq(handler, Unwrap(name), session_id,
                                              settings))
              /\ UNCHANGED <<locks, upload_ret>>

\* POST /api/upload-dithered, up to the file copy.
UploadDitheredCheck(raw, session_id) ==
    /\ upload_req = NoneOpt
    /\ UploadGate("upload_dithered", raw, session_id, TRUE)
    /\ UNCHANGED <<instant, env_lock_secs, lock_ret, dithered_files, cache_files>>
    /\ UNCHANGED flashVars
    /\ UNCHANGED endpointVars
    /\ UNCHANGED workerVars
    /\ UNCHANGED lockEndpointVars
    /\ UNCHANGED cacheVars

\* POST /api/upload-dithered, the file copy and the response.
UploadDitheredWrite(copied) ==
    /\ IsSome(upload_req)
    /\ Unwrap(upload_req).handler = "upload_dithered"
    /\ LET req == Unwrap(upload_req) IN
       IF copied
       THEN /\ dithered_files' =
                  [dithered_files EXCEPT ![req.filename] = TRUE]
            /\ upload_ret' = Some(UploadRet(TRUE,
                                            "Dithered image uploaded successfully"))
       ELSE /\ UNCHANGED dithered_files
            /\ upload_ret' = Some(UploadRet(FALSE,
                                            "Failed to save dithered image"))
    /\ upload_req' = NoneOpt
    /\ UNCHANGED <<cache_files>>
    /\ UNCHANGED lockVars
    /\ UNCHANGED flashVars
    /\ UNCHANGED endpointVars
    /\ UNCHANGED workerVars
    /\ UNCHANGED lockEndpointVars
    /\ UNCHANGED cacheVars

\* POST /api/upload-cache, up to the file copy.
UploadCacheCheck(raw, session_id, settings) ==
    /\ upload_req = NoneOpt
    /\ UploadGate("upload_cache", raw, session_id, settings)
    /\ UNCHANGED <<instant, env_lock_secs, lock_ret, dithered_files, cache_files>>
    /\ UNCHANGED flashVars
    /\ UNCHANGED endpointVars
    /\ UNCHANGED workerVars
    /\ UNCHANGED lockEndpointVars
    /\ UNCHANGED cacheVars

\* POST /api/upload-cache, the file copy and the response; when settings came
\* with the upload the dithered file of the image is removed.
UploadCacheWrite(copied) ==
    /\ IsSome(upload_req)
    /\ Unwrap(upload_req).handler = "upload_cache"
    /\ LET req == Unwrap(upload_req) IN
       IF copied
       THEN /\ cache_files' =
                  [cache_files EXCEPT ![req.filename] = TRUE]
            /\ dithered_files' =
                  IF req.settings
                  THEN [dithered_files EXCEPT ![req.filename] = FALSE]
                  ELSE dithered_files
            /\ upload_ret' = Some(UploadRet(TRUE,
                                            "Cache image uploaded successfully"))
       ELSE /\ UNCHANGED <<cache_files, dithered_files>>
            /\ upload_ret' = Some(UploadRet(FALSE,
                                            "Failed to save cache image"))
    /\ upload_req' = NoneOpt
    /\ UNCHANGED lockVars
    /\ UNCHANGED flashVars
    /\ UNCHANGED endpointVars
    /\ UNCHANGED workerVars
    /\ UNCHANGED lockEndpointVars
    /\ UNCHANGED cacheVars

NextUploads ==
    \/ \E raw \in LockRawNames, s \in Sessions, r \in BOOLEAN : LockImage(raw, s, r)
    \/ \E raw \in LockRawNames, s \in Sessions : UnlockImage(raw, s)
    \/ \E raw \in UploadRawNames, o \in OptSessions : UploadDitheredCheck(raw, o)
    \/ \E copied \in BOOLEAN : UploadDitheredWrite(copied)
    \/ \E raw \in UploadRawNames, o \in OptSessions, settings \in BOOLEAN :
          UploadCacheCheck(raw, o, settings)
    \/ \E copied \in BOOLEAN : UploadCacheWrite(copied)
    \/ Tick

----------------------------------------------------------------------------
(* flash_queue.rs: FlashQueue *)

FINISHED_JOB_RETENTION_MS == 30000

\* The system clock advances in steps of the retention window, so that a
\* finished job is seen before, exactly at and after the end of its window.
TickMs == FINISHED_JOB_RETENTION_MS

\* Error texts produced by execute_flash.
FlashErrors == {"Flash failed (exit code 1)", "Failed to execute script"}

\* The flash requests that are submitted: file name and flash_twice.
FlashSubmissions == {<<"a.png", FALSE>>, <<"b.png", TRUE>>}

\* FlashJob; dithered_path and rotation_degrees are carried along unread and
\* are left out.
FlashJob(job_id, filename, flash_twice, now) ==
    [job_id |-> job_id, filename |-> filename, flash_twice |-> flash_twice,
     status |-> "Queued", created_at |-> now, started_at |-> NoneOpt,
     finished_at |-> NoneOpt, error_message |-> NoneOpt]

\* FlashQueue::new
new ==
    [current_job |-> NoneOpt, queue |-> <<>>, recent_jobs |-> <<>>, next_job_id |-> 1]

\* Mutant of enqueue: the id is derived from the jobs held, not from a counter.
enqueue_CountsHeld(self, now, filename, flash_twice) ==
    LET job_id == Len(self.queue) + Len(self.recent_jobs)
                  + (IF IsSome(self.current_job) THEN 1 ELSE 0) + 1 IN
    [self |-> [self EXCEPT !.next_job_id = self.next_job_id + 1,
                           !.queue = Append(self.queue,
                                            FlashJob(job_id, filename, flash_twice, now))],
     job_id |-> job_id]

\* Mutant of enqueue: the new job takes the place of the jobs that wait.
enqueue_ReplacesWaiting(self, now, filename, flash_twice) ==
    LET job_id == self.next_job_id IN
    [self |-> [self EXCEPT !.next_job_id = self.next_job_id + 1,
                           !.queue = <<FlashJob(job_id, filename, flash_twice, now)>>],
     job_id |-> job_id]

\* Mutant of enqueue: the new job is put at the head of the waiting list.
enqueue_PushFront(self, now, filename, flash_twice) ==
    [self |-> [self EXCEPT !.queue = <<FlashJob(self.next_job_id, filename, flash_twice, now)>>
                                     \o self.queue,
                           !.next_job_id = self.next_job_id + 1],
     job_id |-> self.next_job_id]

\* Mutant of enqueue: with nothing in the slot and nothing waiting, the new
\* job is started at once.
enqueue_StartsIdle(self, now, filename, flash_twice) ==
    LET job == FlashJob(self.next_job_id, filename, flash_twice, now) IN
    [self |-> IF self.current_job = NoneOpt /\ self.queue = <<>>
              THEN [self EXCEPT !.current_job = Some([job EXCEPT !.status = "Flashing",
                                                                 !.started_at = Some(now)]),
                                !.next_job_id = self.next_job_id + 1]
              ELSE [self EXCEPT !.queue = Append(self.queue, job),
                                !.next_job_id = self.next_job_id + 1],
     job_id |-> self.next_job_id]

\* FlashQueue::enqueue: the new queue and the returned job id.
enqueue(self, now, filename, flash_twice) ==
    LET job_id == self.next_job_id IN
    [self |-> [self EXCEPT !.next_job_id = self.next_job_id + 1,
                           !.queue = Append(self.queue,
                                            FlashJob(job_id, filename, flash_twice, now))],
     job_id |-> job_id]

\* Mutant of PopFront: the job taken from the waiting list keeps its status.
PopFront_StaysQueued(self, now) ==
    IF self.queue = <<>>
    THEN [self |-> self, job |-> NoneOpt]
    ELSE LET job == [Head(self.queue) EXCEPT !.started_at = Some(now)] IN
         [self |-> [self EXCEPT !.queue = Tail(self.queue),
                                !.current_job = Some(job)],
          job |-> Some(job)]

\* Mutant of PopFront: the job is handed out but not put in the current slot.
PopFront_LeavesSlotEmpty(self, now) ==
    IF self.queue = <<>>
    THEN [self |-> self, job |-> NoneOpt]
    ELSE LET job == [Head(self.queue) EXCEPT !.status = "Flashing",
                                             !.started_at = Some(now)] IN
         [self |-> [self EXCEPT !.queue = Tail(self.queue)],
          job |-> Some(job)]

\* self.queue.pop_front().map(..): the head becomes the Flashing current job.
PopFront(self, now) ==
    IF self.queue = <<>>
    THEN [self |-> self, job |-> NoneOpt]
    ELSE LET job == [Head(self.queue) EXCEPT !.status = "Flashing",
                                             !.started_at = Some(now)] IN
         [self |-> [self EXCEPT !.queue = Tail(self.queue),
                                !.current_job = Some(job)],
          job |-> Some(job)]

\* Mutant of dequeue: a current job that is still Flashing does not hold the
\* next job back.
dequeue_NoGuard(self, now) ==
    IF IsSome(self.current_job)
       /\ Unwrap(self.current_job).status \in {"Completed", "Failed"}
    THEN PopFront([self EXCEPT !.recent_jobs = Append(self.recent_jobs,
                                                       Unwrap(self.current_job)),
                               !.current_job = NoneOpt], now)
    ELSE PopFront(self, now)

\* Mutant of dequeue: the newest waiting job is taken instead of the oldest.
dequeue_PopBack(self, now) ==
    LET rev == [self EXCEPT !.queue =
                   [i \in 1..Len(self.queue) |-> self.queue[Len(self.queue) + 1 - i]]]
        out == IF IsSome(self.current_job)
               THEN IF Unwrap(self.current_job).status \in {"Flashing", "Queued"}
                    THEN [self |-> rev, job |-> NoneOpt]
                    ELSE PopFront([rev EXCEPT !.recent_jobs =
                                       Append(self.recent_jobs, Unwrap(self.current_job)),
                                   !.current_job = NoneOpt], now)
               ELSE PopFront(rev, now)
    IN [self |-> [out.self EXCEPT !.queue =
                     [i \in 1..Len(out.self.queue) |->
                         out.self.queue[Len(out.self.queue) + 1 - i]]],
        job |-> out.job]

\* Mutant of dequeue: a finished current job is dropped instead of retained.
dequeue_DropsFinished(self, now) ==
    IF IsSome(self.current_job)
    THEN IF Unwrap(self.current_job).status \in {"Flashing", "Queued"}
         THEN [self |-> self, job |-> NoneOpt]
         ELSE PopFront([self EXCEPT !.current_job = NoneOpt], now)
    ELSE PopFront(self, now)

\* Mutant of dequeue: a finished current job is put at the front of the
\* retained list instead of the back.
dequeue_RetainsAtFront(self, now) ==
    IF IsSome(self.current_job)
    THEN IF Unwrap(self.current_job).status \in {"Flashing", "Queued"}
         THEN [self |-> self, job |-> NoneOpt]
         ELSE PopFront([self EXCEPT !.recent_jobs = <<Unwrap(self.current_job)>>
                                                     \o self.recent_jobs,
                                    !.current_job = NoneOpt], now)
    ELSE PopFront(self, now)

\* FlashQueue::dequeue: the new queue and the returned Option<FlashJob>.
dequeue(self, now) ==
    IF IsSome(self.current_job)
    THEN IF Unwrap(self.current_job).status \in {"Flashing", "Queued"}
         THEN [self |-> self, job |-> NoneOpt]
         ELSE PopFront([self EXCEPT !.recent_jobs = Append(self.recent_jobs,
                                                            Unwrap(self.current_job)),
                                    !.current_job = NoneOpt], now)
    ELSE PopFront(self, now)

\* Mutant of mark_completed: the finished job goes to the retained list at
\* once and the slot is emptied.
mark_completed_ClearsSlot(self, now) ==
    IF IsSome(self.current_job)
    THEN [self EXCEPT !.recent_jobs =
                          Append(self.recent_jobs,
                                 [Unwrap(self.current_job) EXCEPT !.status = "Completed",
                                                                  !.finished_at = Some(now)]),
                      !.current_job = NoneOpt]
    ELSE self

\* FlashQueue::mark_completed
mark_completed(self, now) ==
    IF IsSome(self.current_job)
    THEN [self EXCEPT !.current_job =
             Some([Unwrap(self.current_job) EXCEPT !.status = "Completed",
                                                   !.finished_at = Some(now)])]
    ELSE self

\* Mutant of mark_failed: the failed job goes back to the waiting list.
mark_failed_Requeues(self, now, error) ==
    IF IsSome(self.current_job)
    THEN [self EXCEPT !.queue = Append(self.queue,
                                       [Unwrap(self.current_job) EXCEPT
                                            !.status = "Queued",
                                            !.started_at = NoneOpt]),
                      !.current_job = NoneOpt]
    ELSE self

\* Mutant of mark_failed: the error text is not stored.
mark_failed_NoMessage(self, now, error) ==
    IF IsSome(self.current_job)
    THEN [self EXCEPT !.current_job =
             Some([Unwrap(self.current_job) EXCEPT !.status = "Failed",
                                                   !.finished_at = Some(now)])]
    ELSE self

\* FlashQueue::mark_failed
mark_failed(self, now, error) ==
    IF IsSome(self.current_job)
    THEN [self EXCEPT !.current_job =
             Some([Unwrap(self.current_job) EXCEPT !.status = "Failed",
                                                   !.finished_at = Some(now),
                                                   !.error_message = Some(error)])]
    ELSE self

\* now > finished_at && (now - finished_at) > FINISHED_JOB_RETENTION_MS
RetentionElapsed(finished_at, now) ==
    now > finished_at /\ (now - finished_at) > FINISHED_JOB_RETENTION_MS

\* is_expired of prune_recent_jobs: a job without finish time counts as expired.
is_expired(job, now) ==
    IF IsSome(job.finished_at)
    THEN RetentionElapsed(Unwrap(job.finished_at), now)
    ELSE TRUE

\* The while loop of prune_recent_jobs: pop the front while it is expired.
RECURSIVE PruneFront(_, _)
PruneFront(jobs, now) ==
    IF jobs # <<>> /\ is_expired(Head(jobs), now)
    THEN PruneFront(Tail(jobs), now)
    ELSE jobs

\* Mutant of prune_recent_jobs: every retained job is dropped.
prune_recent_jobs_DropsAll(self, now) ==
    [self EXCEPT !.recent_jobs = <<>>]

\* FlashQueue::prune_recent_jobs
prune_recent_jobs(self, now) ==
    [self EXCEPT !.recent_jobs = PruneFront(self.recent_jobs, now)]

\* Mutant of clear_current_if_finished: the retained list is not pruned.
clear_current_if_finished_NoPrune(self, now) ==
    IF /\ IsSome(self.current_job)
       /\ Unwrap(self.current_job).status \in {"Completed", "Failed"}
       /\ IsSome(Unwrap(self.current_job).finished_at)
       /\ RetentionElapsed(Unwrap(Unwrap(self.current_job).finished_at), now)
    THEN [self EXCEPT !.current_job = NoneOpt]
    ELSE self

\* FlashQueue::clear_current_if_finished
clear_current_if_finished(self, now) ==
    LET pruned == prune_recent_jobs(self, now) IN
    IF /\ IsSome(pruned.current_job)
       /\ Unwrap(pruned.current_job).status \in {"Completed", "Failed"}
       /\ IsSome(Unwrap(pruned.current_job).finished_at)
       /\ RetentionElapsed(Unwrap(Unwrap(pruned.current_job).finished_at), now)
    THEN [pruned EXCEPT !.current_job = NoneOpt]
    ELSE pruned

\* The index of the first job with this id in a list, 0 when there is none.
Position(jobs, job_id) ==
    LET hits == {i \in 1..Len(jobs) : jobs[i].job_id = job_id} IN
    IF hits = {} THEN 0 ELSE CHOOSE i \in hits : \A j \in hits : i <= j

\* Mutant of get_position: the index in the waiting list is reported as it
\* is, counted from 0.
get_position_ZeroBased(self, job_id) ==
    IF IsSome(self.current_job) /\ Unwrap(self.current_job).job_id = job_id
    THEN Some(0)
    ELSE IF Position(self.queue, job_id) # 0
         THEN Some(Position(self.queue, job_id) - 1)
         ELSE NoneOpt

\* FlashQueue::get_position
get_position(self, job_id) ==
    IF IsSome(self.current_job) /\ Unwrap(self.current_job).job_id = job_id
    THEN Some(0)
    ELSE IF Position(self.queue, job_id) # 0
         THEN Some(Position(self.queue, job_id))
         ELSE NoneOpt

\* Mutant of find_job: for an id that is not found the job at the head of the
\* waiting list is returned.
find_job_FallsBackToHead(self, job_id) ==
    IF IsSome(self.current_job) /\ Unwrap(self.current_job).job_id = job_id
    THEN self.current_job
    ELSE IF Position(self.queue, job_id) # 0
         THEN Some(self.queue[Position(self.queue, job_id)])
         ELSE IF Position(self.recent_jobs, job_id) # 0
              THEN Some(self.recent_jobs[Position(self.recent_jobs, job_id)])
              ELSE IF self.queue # <<>> THEN Some(Head(self.queue)) ELSE NoneOpt

\* FlashQueue::find_job
find_job(self, job_id) ==
    LET in_queue == Position(self.queue, job_id)
        in_recent == Position(self.recent_jobs, job_id)
    IN IF IsSome(self.current_job) /\ Unwrap(self.current_job).job_id = job_id
       THEN self.current_job
       ELSE IF in_queue # 0
            THEN Some(self.queue[in_queue])
            ELSE IF in_recent # 0
                 THEN Some(self.recent_jobs[in_recent])
                 ELSE NoneOpt

\* The record of the last call that returned something: enqueue its job id,
\* dequeue the id of the job it returned, if any.
QueueRet(op, job_id) == [op |-> op, job_id |-> job_id]

\* The id of an Option<FlashJob>, as an Option.
JobIdOf(job) == IF IsSome(job) THEN Some(Unwrap(job).job_id) ELSE NoneOpt

\* A call of enqueue(filename, .., flash_twice, ..).
Enqueue(filename, flash_twice) ==
    /\ flash_queue.next_job_id <= MaxJobs
    /\ LET o == enqueue(flash_queue, now_ms, filename, flash_twice) IN
       /\ flash_queue' = o.self
       /\ queue_ret' = QueueRet("enqueue", Some(o.job_id))
       /\ issued' = Append(issued, o.job_id)
    /\ UNCHANGED <<now_ms, started, flashing>>
    /\ UNCHANGED lockVars
    /\ UNCHANGED uploadVars
    /\ UNCHANGED endpointVars
    /\ UNCHANGED workerVars
    /\ UNCHANGED lockEndpointVars
    /\ UNCHANGED cacheVars

\* A call of dequeue().
Dequeue ==
    /\ LET o == dequeue(flash_queue, now_ms) IN
       /\ flash_queue' = o.self
       /\ queue_ret' = QueueRet("dequeue", JobIdOf(o.job))
       /\ started' = IF IsSome(o.job) THEN Append(started, Unwrap(o.job).job_id)
                                      ELSE started
       /\ flashing' = IF IsSome(o.job) THEN flashing \cup {Unwrap(o.job).job_id}
                                       ELSE flashing
    /\ UNCHANGED <<now_ms, issued>>
    /\ UNCHANGED lockVars
    /\ UNCHANGED uploadVars
    /\ UNCHANGED endpointVars
    /\ UNCHANGED workerVars
    /\ UNCHANGED lockEndpointVars
    /\ UNCHANGED cacheVars

\* The jobs still handed out once the current job has been marked.
AfterMark == 
    IF IsSome(flash_queue.current_job)
    THEN flashing \ {Unwrap(flash_queue.current_job).job_id}
    ELSE flashing

\* The current slot holds a job that dequeue handed out and that is not marked
\* yet: the only state in which the worker calls mark_completed / mark_failed.
CurrentIsFlashing ==
    /\ IsSome(flash_queue.current_job)
    /\ Unwrap(flash_queue.current_job).status = "Flashing"

\* A call of mark_completed() for the job that was dequeued.
MarkCompleted ==
    /\ CurrentIsFlashing
    /\ flash_queue' = mark_completed(flash_queue, now_ms)
    /\ flashing' = AfterMark
    /\ UNCHANGED <<now_ms, queue_ret, issued, started>>
    /\ UNCHANGED lockVars
    /\ UNCHANGED uploadVars
    /\ UNCHANGED endpointVars
    /\ UNCHANGED workerVars
    /\ UNCHANGED lockEndpointVars
    /\ UNCHANGED cacheVars

\* A call of mark_failed(error) for the job that was dequeued.
MarkFailed(error) ==
    /\ CurrentIsFlashing
    /\ flash_queue' = mark_failed(flash_queue, now_ms, error)
    /\ flashing' = AfterMark
    /\ UNCHANGED <<now_ms, queue_ret, issued, started>>
    /\ UNCHANGED lockVars
    /\ UNCHANGED uploadVars
    /\ UNCHANGED endpointVars
    /\ UNCHANGED workerVars
    /\ UNCHANGED lockEndpointVars
    /\ UNCHANGED cacheVars

\* A call of clear_current_if_finished().
ClearCurrentIfFinished ==
    /\ flash_queue' = clear_current_if_finished(flash_queue, now_ms)
    /\ UNCHANGED <<now_ms, queue_ret, issued, started, flashing>>
    /\ UNCHANGED lockVars
    /\ UNCHANGED uploadVars
    /\ UNCHANGED endpointVars
    /\ UNCHANGED workerVars
    /\ UNCHANGED lockEndpointVars
    /\ UNCHANGED cacheVars

\* A call of prune_recent_jobs().
PruneRecentJobs ==
    /\ flash_queue' = prune_recent_jobs(flash_queue, now_ms)
    /\ UNCHANGED <<now_ms, queue_ret, issued, started, flashing>>
    /\ UNCHANGED lockVars
    /\ UNCHANGED uploadVars
    /\ UNCHANGED endpointVars
    /\ UNCHANGED workerVars
    /\ UNCHANGED lockEndpointVars
    /\ UNCHANGED cacheVars

\* Time passes on the system clock.
ClockTick ==
    /\ now_ms < MaxFlashTicks * TickMs
    /\ now_ms' = now_ms + TickMs
    /\ UNCHANGED <<flash_queue, queue_ret, issued, started, flashing>>
    /\ UNCHANGED lockVars
    /\ UNCHANGED uploadVars
    /\ UNCHANGED endpointVars
    /\ UNCHANGED workerVars
    /\ UNCHANGED lockEndpointVars
    /\ UNCHANGED cacheVars

\* main.rs:1376: the queue starts as FlashQueue::new().
InitFlash ==
    /\ flash_queue = new
    /\ now_ms = 0
    /\ queue_ret = QueueRet("none", NoneOpt)
    /\ issued = <<>>
    /\ started = <<>>
    /\ flashing = {}

NextQueue ==
    \/ \E sub \in FlashSubmissions : Enqueue(sub[1], sub[2])
    \/ Dequeue
    \/ MarkCompleted
    \/ \E error \in FlashErrors : MarkFailed(error)
    \/ ClearCurrentIfFinished
    \/ PruneRecentJobs
    \/ ClockTick

----------------------------------------------------------------------------
(* main.rs: the flash endpoints *)

\* Raw file names sent to the flash endpoint.
FlashRawNames == {<<"a.png">>, <<"..">>}

\* The job ids asked about: the ids of the jobs, one below and one above.
JobIds == 0..(MaxJobs + 1)

\* The response of a flash endpoint: status code and the fields of its body.
FlashRet(endpoint, status, job_id, queue_position, job) ==
    [endpoint |-> endpoint, status |-> status, job_id |-> job_id,
     queue_position |-> queue_position, job |-> job]

\* The suspended flash request: sanitized file name, session and flash_twice.
FlashReq(filename, session_id, flash_twice) ==
    [filename |-> filename, session_id |-> session_id, flash_twice |-> flash_twice]

\* Mutant of FlashGate: the result of verify_lock_ownership is not looked at.
FlashGate_Unchecked(raw, session_id, flash_twice, snapshot_ok) ==
    LET name == sanitize_filename(raw) IN
    IF ~IsSome(name)
    THEN [locks |-> locks, req |-> NoneOpt,
          ret |-> Some(FlashRet("flash", 400, NoneOpt, NoneOpt, NoneOpt))]
    ELSE LET v == verify_lock_ownership(locks, instant, Unwrap(name), session_id) IN
         IF ~dithered_files[Unwrap(name)]
         THEN [locks |-> v.locks, req |-> NoneOpt,
               ret |-> Some(FlashRet("flash", 404, NoneOpt, NoneOpt, NoneOpt))]
         ELSE IF ~snapshot_ok
         THEN [locks |-> v.locks, req |-> NoneOpt,
               ret |-> Some(FlashRet("flash", 500, NoneOpt, NoneOpt, NoneOpt))]
         ELSE [locks |-> v.locks,
               req |-> Some(FlashReq(Unwrap(name), session_id, flash_twice)),
               ret |-> NoneOpt]

\* submit_flash_image up to its wait for the queue mutex: sanitize the name,
\* verify the lock, require the dithered file, snapshot it.  The lock map
\* after the check, the request that goes on to enqueue (if any) and the
\* error response (if any).
FlashGate(raw, session_id, flash_twice, snapshot_ok) ==
    LET name == sanitize_filename(raw) IN
    IF ~IsSome(name)
    THEN [locks |-> locks, req |-> NoneOpt,
          ret |-> Some(FlashRet("flash", 400, NoneOpt, NoneOpt, NoneOpt))]
    ELSE LET v == verify_lock_ownership(locks, instant, Unwrap(name), session_id) IN
         IF ~v.ok
         THEN [locks |-> v.locks, req |-> NoneOpt,
               ret |-> Some(FlashRet("flash", 403, NoneOpt, NoneOpt, NoneOpt))]
         ELSE IF ~dithered_files[Unwrap(name)]
         THEN [locks |-> v.locks, req |-> NoneOpt,
               ret |-> Some(FlashRet("flash", 404, NoneOpt, NoneOpt, NoneOpt))]
         ELSE IF ~snapshot_ok
         THEN [locks |-> v.locks, req |-> NoneOpt,
               ret |-> Some(FlashRet("flash", 500, NoneOpt, NoneOpt, NoneOpt))]
         ELSE [locks |-> v.locks,
               req |-> Some(FlashReq(Unwrap(name), session_id, flash_twice)),
               ret |-> NoneOpt]

\* POST /flash, first part: the request is checked.
SubmitFlashCheck(raw, session_id, flash_twice, snapshot_ok) ==
    /\ flash_req = NoneOpt
    /\ LET g == FlashGate(raw, session_id, flash_twice, snapshot_ok) IN
       /\ locks' = g.locks
       /\ flash_req' = g.req
       /\ flash_ret' = IF IsSome(g.ret) THEN Unwrap(g.ret) ELSE flash_ret
    /\ UNCHANGED <<instant, env_lock_secs, lock_ret>>
    /\ UNCHANGED uploadVars
    /\ UNCHANGED flashVars
    /\ UNCHANGED workerVars
    /\ UNCHANGED lockEndpointVars
    /\ UNCHANGED cacheVars

\* queue.get_position(job_id).unwrap_or(0)
UnwrapOr(o, default) == IF IsSome(o) THEN Unwrap(o) ELSE default

\* Mutant of UnderSameGuard: the guard is released after the enqueue, and the
\* worker's poll runs before get_position.
UnderSameGuard_WorkerPollsBetween(self, now) ==
    dequeue(clear_current_if_finished(self, now), now).self

\* main.rs:1094-1102: `queue` is one MutexGuard from the enqueue to the
\* get_position, so get_position reads the queue as enqueue left it.
UnderSameGuard(self, now) == self

\* POST /flash, second part: with the queue mutex held the job is enqueued
\* and its position is read for the response.
SubmitFlashEnqueue ==
    /\ IsSome(flash_req)
    /\ queue_mutex = "free"
    /\ flash_queue.next_job_id <= MaxJobs
    /\ LET req == Unwrap(flash_req)
           o == enqueue(flash_queue, now_ms, req.filename, req.flash_twice) IN
       /\ flash_queue' = o.self
       /\ queue_ret' = QueueRet("enqueue", Some(o.job_id))
       /\ issued' = Append(issued, o.job_id)
       /\ flash_ret' = FlashRet("flash", 200, Some(o.job_id),
                                Some(UnwrapOr(get_position(UnderSameGuard(o.self, now_ms),
                                                           o.job_id), 0)),
                                NoneOpt)
    /\ flash_req' = NoneOpt
    /\ UNCHANGED <<now_ms, started, flashing>>
    /\ UNCHANGED lockVars
    /\ UNCHANGED uploadVars
    /\ UNCHANGED workerVars
    /\ UNCHANGED lockEndpointVars
    /\ UNCHANGED cacheVars

\* flash_job_status: the job when find_job finds it, else Status::NotFound.
flash_job_status(self, job_id) ==
    IF IsSome(find_job(self, job_id))
    THEN FlashRet("status", 200, Some(job_id), NoneOpt, find_job(self, job_id))
    ELSE FlashRet("status", 404, Some(job_id), NoneOpt, NoneOpt)

\* GET /api/flash/status/<job_id>
FlashJobStatus(job_id) ==
    /\ queue_mutex = "free"
    /\ flash_ret' = flash_job_status(flash_queue, job_id)
    /\ UNCHANGED flash_req
    /\ UNCHANGED lockVars
    /\ UNCHANGED uploadVars
    /\ UNCHANGED flashVars
    /\ UNCHANGED workerVars
    /\ UNCHANGED lockEndpointVars
    /\ UNCHANGED cacheVars

InitEndpoints ==
    /\ flash_req = NoneOpt
    /\ flash_ret = FlashRet("none", 0, NoneOpt, NoneOpt, NoneOpt)

\* The flash endpoint together with the lock and upload-dithered endpoints
\* that bring a request past its checks.
NextFlash ==
    \/ \E raw \in LockRawNames, s \in Sessions : LockImage(raw, s, FALSE)
    \/ \E raw \in LockRawNames, s \in Sessions : UnlockImage(raw, s)
    \/ UploadDitheredCheck(<<"a.png">>, NoneOpt)
    \/ UploadDitheredWrite(TRUE)
    \/ \E raw \in FlashRawNames, s \in Sessions, snap \in BOOLEAN :
          SubmitFlashCheck(raw, s, FALSE, snap)
    \/ SubmitFlashEnqueue
    \/ Tick

----------------------------------------------------------------------------
(* flash_queue.rs: spawn_flash_worker and execute_flash *)

\* How one invocation of the display command ends: exit status zero, a
\* non-zero exit status, or the command could not be launched.
Outcomes == {"ok", "exit", "spawn"}

\* Result<(), String>
Ok == [ok |-> TRUE, error |-> NoneOpt]
Err(e) == [ok |-> FALSE, error |-> Some(e)]

\* The error text of execute_flash for the n-th invocation.
ExecError(n, outcome) ==
    IF n = 1
    THEN IF outcome = "spawn" THEN "Failed to execute script"
                              ELSE "Flash failed (exit code 1)"
    ELSE IF outcome = "spawn" THEN "Failed to execute second flash"
                              ELSE "Second flash failed (exit code 1)"

\* Mutant of execute_flash: the second flash runs whatever the first did, and
\* the result is that of the last invocation.
execute_flash_AlwaysTwice(flash_twice, outs) ==
    IF outs = <<>> THEN NoneOpt
    ELSE IF ~flash_twice
    THEN IF outs[1] # "ok" THEN Some(Err(ExecError(1, outs[1]))) ELSE Some(Ok)
    ELSE IF Len(outs) = 1 THEN NoneOpt
    ELSE IF outs[2] # "ok" THEN Some(Err(ExecError(2, outs[2])))
    ELSE Some(Ok)

\* execute_flash, given how the invocations made so far ended: the Result it
\* returns, or None while another invocation is to be made.
execute_flash(flash_twice, outs) ==
    IF outs = <<>> THEN NoneOpt
    ELSE IF outs[1] # "ok" THEN Some(Err(ExecError(1, outs[1])))
    ELSE IF ~flash_twice THEN Some(Ok)
    ELSE IF Len(outs) = 1 THEN NoneOpt
    ELSE IF outs[2] # "ok" THEN Some(Err(ExecError(2, outs[2])))
    ELSE Some(Ok)

\* Mutant of PollGuardAfter: the guard is kept while a job is being flashed.
PollGuardAfter_HeldWhileFlashing(job) == IF IsSome(job) THEN "worker" ELSE "free"

\* The holder of the mutex once the block `let job = { .. }` has ended: the
\* guard is dropped with the block, whatever dequeue returned.
PollGuardAfter(job) == "free"

\* queue_state.lock().await at the top of the loop.
WorkerLockPoll ==
    /\ worker_pc = "lock_poll"
    /\ queue_mutex = "free"
    /\ queue_mutex' = "worker"
    /\ worker_pc' = "poll"
    /\ UNCHANGED <<worker_job, worker_result, outcomes>>
    /\ UNCHANGED lockVars
    /\ UNCHANGED uploadVars
    /\ UNCHANGED flashVars
    /\ UNCHANGED endpointVars
    /\ UNCHANGED lockEndpointVars
    /\ UNCHANGED cacheVars

\* Mutant of PollNext: after a job that failed the worker stops.
PollNext_StopsOnFailure(job) ==
    IF IsSome(worker_result) /\ ~Unwrap(worker_result).ok THEN "stopped"
    ELSE IF IsSome(job) THEN "exec" ELSE "sleep"

\* `if let Some(job) = job { .. } else { sleep }`: where the worker goes on.
PollNext(job) == IF IsSome(job) THEN "exec" ELSE "sleep"

\* queue.clear_current_if_finished(); queue.dequeue() under the mutex.
WorkerPoll ==
    /\ worker_pc = "poll"
    /\ LET o == dequeue(clear_current_if_finished(flash_queue, now_ms), now_ms) IN
       /\ flash_queue' = o.self
       /\ worker_job' = o.job
       /\ queue_ret' = QueueRet("dequeue", JobIdOf(o.job))
       /\ started' = IF IsSome(o.job) THEN Append(started, Unwrap(o.job).job_id)
                                      ELSE started
       /\ flashing' = IF IsSome(o.job) THEN flashing \cup {Unwrap(o.job).job_id}
                                       ELSE flashing
       /\ queue_mutex' = PollGuardAfter(o.job)
       /\ worker_pc' = PollNext(o.job)
    /\ worker_result' = NoneOpt
    /\ outcomes' = <<>>
    /\ UNCHANGED <<now_ms, issued>>
    /\ UNCHANGED lockVars
    /\ UNCHANGED uploadVars
    /\ UNCHANGED endpointVars
    /\ UNCHANGED lockEndpointVars
    /\ UNCHANGED cacheVars

\* time::sleep(500 ms) when there was no job.
WorkerSleep ==
    /\ worker_pc = "sleep"
    /\ worker_pc' = "lock_poll"
    /\ UNCHANGED <<queue_mutex, worker_job, worker_result, outcomes>>
    /\ UNCHANGED lockVars
    /\ UNCHANGED uploadVars
    /\ UNCHANGED flashVars
    /\ UNCHANGED endpointVars
    /\ UNCHANGED lockEndpointVars
    /\ UNCHANGED cacheVars

\* One invocation of the display command by execute_flash returns.
WorkerInvoke(outcome) ==
    /\ worker_pc = "exec"
    /\ outcomes' = Append(outcomes, outcome)
    /\ LET r == execute_flash(Unwrap(worker_job).flash_twice, Append(outcomes, outcome)) IN
       /\ worker_result' = r
       /\ worker_pc' = IF IsSome(r) THEN "lock_mark" ELSE "exec"
    /\ UNCHANGED <<queue_mutex, worker_job>>
    /\ UNCHANGED lockVars
    /\ UNCHANGED uploadVars
    /\ UNCHANGED flashVars
    /\ UNCHANGED endpointVars
    /\ UNCHANGED lockEndpointVars
    /\ UNCHANGED cacheVars

\* queue_state.lock().await after execute_flash.
WorkerLockMark ==
    /\ worker_pc = "lock_mark"
    /\ queue_mutex = "free"
    /\ queue_mutex' = "worker"
    /\ worker_pc' = "mark"
    /\ UNCHANGED <<worker_job, worker_result, outcomes>>
    /\ UNCHANGED lockVars
    /\ UNCHANGED uploadVars
    /\ UNCHANGED flashVars
    /\ UNCHANGED endpointVars
    /\ UNCHANGED lockEndpointVars
    /\ UNCHANGED cacheVars

\* match result { Ok(()) => mark_completed(), Err(e) => mark_failed(e) }; the
\* guard is dropped at the end of the loop body.
WorkerMark ==
    /\ worker_pc = "mark"
    /\ flash_queue' = IF Unwrap(worker_result).ok
                      THEN mark_completed(flash_queue, now_ms)
                      ELSE mark_failed(flash_queue, now_ms,
                                       Unwrap(Unwrap(worker_result).error))
    /\ flashing' = AfterMark
    /\ queue_mutex' = "free"
    /\ worker_pc' = "lock_poll"
    /\ UNCHANGED <<worker_job, worker_result, outcomes>>
    /\ UNCHANGED <<now_ms, queue_ret, issued, started>>
    /\ UNCHANGED lockVars
    /\ UNCHANGED uploadVars
    /\ UNCHANGED endpointVars
    /\ UNCHANGED lockEndpointVars
    /\ UNCHANGED cacheVars

\* The steps of the worker task.
WorkerNext ==
    \/ WorkerLockPoll
    \/ WorkerPoll
    \/ WorkerSleep
    \/ \E outcome \in Outcomes : WorkerInvoke(outcome)
    \/ WorkerLockMark
    \/ WorkerMark

\* A pause longer than the retention window: the next reading of the system
\* clock lies past the window of every job finished so far.
ClockPause ==
    /\ now_ms < MaxFlashTicks * TickMs
    /\ now_ms' = MaxFlashTicks * TickMs
    /\ UNCHANGED <<flash_queue, queue_ret, issued, started, flashing>>
    /\ UNCHANGED lockVars
    /\ UNCHANGED uploadVars
    /\ UNCHANGED endpointVars
    /\ UNCHANGED workerVars
    /\ UNCHANGED lockEndpointVars
    /\ UNCHANGED cacheVars

\* The critical section of submit_flash_image: enqueue under the mutex.
QueueRequest(filename, flash_twice) ==
    /\ queue_mutex = "free"
    /\ Enqueue(filename, flash_twice)

\* The worker task and the requests that enqueue and that poll a job.
NextStatus ==
    \/ WorkerNext
    \/ \E sub \in FlashSubmissions : QueueRequest(sub[1], sub[2])
    \/ \E id \in JobIds : FlashJobStatus(id)

\* Flash requests for an image that is locked and has its dithered file,
\* and the worker task.
NextSubmit ==
    \/ \E s \in Sessions : LockImage(<<"a.png">>, s, FALSE)
    \/ UploadDitheredCheck(<<"a.png">>, NoneOpt)
    \/ UploadDitheredWrite(TRUE)
    \/ \E s \in Sessions, flash_twice \in BOOLEAN :
           SubmitFlashCheck(<<"a.png">>, s, flash_twice, TRUE)
    \/ SubmitFlashEnqueue
    \/ WorkerNext

\* main.rs:1245: the worker is spawned once, at liftoff.
InitWorker ==
    /\ queue_mutex = "free"
    /\ worker_pc = "lock_poll"
    /\ worker_job = NoneOpt
    /\ worker_result = NoneOpt
    /\ outcomes = <<>>

\* The worker task, the requests that enqueue, and the clock.
NextWorker ==
    \/ WorkerNext
    \/ \E sub \in FlashSubmissions : QueueRequest(sub[1], sub[2])
    \/ ClockPause

----------------------------------------------------------------------------
(* cache_worker.rs, metadata.rs: the startup cache scan and the cache worker *)

\* The number of source images under static/images.
MaxImages == 102

\* The largest number of requests the worker task has received when it is
\* gone before its loop has ended.
MaxTakenBeforeGone == 2

\* cache_worker.rs:118: mpsc::channel::<CacheRequest>(100).
CHANNEL_CAPACITY == 100

\* metadata.rs:12.
DEFAULT_FILTER == "bicubic"

ImageIds == 1..MaxImages

\* What glob("static/images/*") yields, in order: the cache directory, an
\* entry that cannot be read, the source images, and a .json file.
NumEntries == MaxImages + 3

GlobEntry(i) ==
    IF i = 1 THEN [kind |-> "dir", image |-> 0]
    ELSE IF i = 2 THEN [kind |-> "error", image |-> 0]
    ELSE IF i = NumEntries THEN [kind |-> "json", image |-> 0]
    ELSE [kind |-> "image", image |-> i - 2]

\* The metadata file of an image: absent, unparsable, or holding a filter
\* name, which is one of the recognized names or not.
MetadataFile(image) ==
    CASE image % 4 = 1 -> NoneOpt
      [] image % 4 = 2 -> Some([parses |-> TRUE, filter |-> "lanczos"])
      [] image % 4 = 3 -> Some([parses |-> TRUE, filter |-> "sepia"])
      [] OTHER -> Some([parses |-> FALSE, filter |-> ""])

\* Whether image::open fails on the source image.
Unreadable(image) == image % 5 = 0

\* The cache files present at startup: none, all, or every third one.
StartupCaches == {{}, ImageIds, {i \in ImageIds : i % 3 = 0}}

\* metadata.rs:89-115: the defaults when the file is absent or unparsable.
load_metadata(file) ==
    IF IsSome(file) /\ Unwrap(file).parses
    THEN [filter |-> Unwrap(file).filter]
    ELSE [filter |-> DEFAULT_FILTER]

\* metadata.rs:155-160.
is_valid_filter(filter) ==
    filter \in {"bicubic", "lanczos", "mitchell", "bilinear", "nearest"}

get_filter_for_image_Unvalidated(image) ==
    load_metadata(MetadataFile(image)).filter

\* metadata.rs:168-180.
get_filter_for_image(image) ==
    LET metadata == load_metadata(MetadataFile(image))
    IN  IF is_valid_filter(metadata.filter) THEN metadata.filter ELSE DEFAULT_FILTER

\* cache_worker.rs:14-17: CacheRequest::CreateCache(path, filter).
CreateCache(image, filter) == [image |-> image, filter |-> filter]

HasCapacity_Unbounded(chan) == TRUE

\* tokio mpsc: a bounded channel takes a message only while it buffers fewer
\* than its capacity.
HasCapacity(chan) == Len(chan) < CHANNEL_CAPACITY

Recv_Newest(chan) ==
    [request |-> chan[Len(chan)], chan |-> SubSeq(chan, 1, Len(chan) - 1)]

\* tokio mpsc: rx.recv() takes the oldest buffered message.
Recv(chan) == [request |-> Head(chan), chan |-> Tail(chan)]

\* The request the scan builds for the entry at scan_pos.
ScanRequest ==
    CreateCache(GlobEntry(scan_pos).image, get_filter_for_image(GlobEntry(scan_pos).image))

\* Whether the blocking task that runs create_cached_image panics.
Panics(image) == image % 7 = 0

\* cache_worker.rs:88-96: the result of the blocking task: Ok(Ok(())),
\* Ok(Err(e)) or Err(JoinError).
CreateOutcome(image) ==
    IF Panics(image) THEN "panic"
    ELSE IF Unreadable(image) THEN "error"
    ELSE "ok"

\* Mutant of LoopAfter: the loop ends at the first request that fails.
LoopAfter_StopsOnFailure(outcome) == IF outcome = "ok" THEN "open" ELSE "closed"

\* cache_worker.rs:92-96: every arm of the match only prints; the loop goes
\* on and the receiver stays open.
LoopAfter(outcome) == "open"

\* Mutant of AfterSendError: the scan gives up at the first failed send.
AfterSendError_Aborts(pos) == [scan_pc |-> "done", scan_pos |-> pos]

\* cache_worker.rs:171-173: an Err from send is printed and the for loop goes
\* on with the next entry.
AfterSendError(pos) == [scan_pc |-> "scan", scan_pos |-> pos + 1]

\* tx.send(request): the channel accepts the request.
Accept(request) ==
    /\ cache_chan' = Append(cache_chan, request)
    /\ cache_sent' = Append(cache_sent, request)
    /\ scan_pos' = scan_pos + 1
    /\ scan_pc' = "scan"
    /\ UNCHANGED scan_dropped

\* tx.send(request) returns Err(SendError): the receiver is gone.
Reject(request) ==
    /\ scan_dropped' = Append(scan_dropped, request)
    /\ scan_pos' = AfterSendError(scan_pos).scan_pos
    /\ scan_pc' = AfterSendError(scan_pos).scan_pc
    /\ UNCHANGED <<cache_chan, cache_sent>>

\* cache_worker.rs:147-177: one iteration of the loop over the glob entries.
\* The send at line 171 fails at once when the receiver is closed, completes
\* at once when the channel has room, and leaves the task suspended in it
\* otherwise.
ScanVisit ==
    /\ scan_pc = "scan"
    /\ scan_pos <= NumEntries
    /\ LET entry == GlobEntry(scan_pos)
       IN  IF entry.kind # "image" \/ entry.image \in cache_present
           THEN /\ scan_pos' = scan_pos + 1
                /\ UNCHANGED <<scan_pc, cache_chan, cache_sent, scan_dropped>>
           ELSE IF cache_rx = "closed"
           THEN Reject(ScanRequest)
           ELSE IF HasCapacity(cache_chan)
           THEN Accept(ScanRequest)
           ELSE /\ scan_pc' = "send"
                /\ UNCHANGED <<scan_pos, cache_chan, cache_sent, scan_dropped>>
    /\ UNCHANGED <<cache_present, cache_missing0, cache_busy, cache_taken>>
    /\ UNCHANGED <<cache_senders, cache_rx, cache_results>>
    /\ UNCHANGED lockVars
    /\ UNCHANGED uploadVars
    /\ UNCHANGED flashVars
    /\ UNCHANGED endpointVars
    /\ UNCHANGED workerVars
    /\ UNCHANGED lockEndpointVars

\* cache_worker.rs:171: the suspended send completes once the worker has
\* made room, or fails once the receiver is closed.
ScanSend ==
    /\ scan_pc = "send"
    /\ IF cache_rx = "closed"
       THEN Reject(ScanRequest)
       ELSE HasCapacity(cache_chan) /\ Accept(ScanRequest)
    /\ UNCHANGED <<cache_present, cache_missing0, cache_busy, cache_taken>>
    /\ UNCHANGED <<cache_senders, cache_rx, cache_results>>
    /\ UNCHANGED lockVars
    /\ UNCHANGED uploadVars
    /\ UNCHANGED flashVars
    /\ UNCHANGED endpointVars
    /\ UNCHANGED workerVars
    /\ UNCHANGED lockEndpointVars

\* cache_worker.rs:180-184, 130-136: the loop is over, the scan returns and
\* its clone of the sender is dropped.
ScanFinish ==
    /\ scan_pc = "scan"
    /\ scan_pos > NumEntries
    /\ scan_pc' = "done"
    /\ cache_senders' = cache_senders \ {"scan"}
    /\ UNCHANGED <<cache_present, cache_missing0, scan_pos, cache_chan, cache_busy,
                   cache_sent, cache_taken, cache_rx, scan_dropped, cache_results>>
    /\ UNCHANGED lockVars
    /\ UNCHANGED uploadVars
    /\ UNCHANGED flashVars
    /\ UNCHANGED endpointVars
    /\ UNCHANGED workerVars
    /\ UNCHANGED lockEndpointVars

\* cache_worker.rs:79: rx.recv().await returns the next request.
CacheRecv ==
    /\ cache_rx = "open"
    /\ cache_busy = NoneOpt
    /\ cache_chan # <<>>
    /\ LET r == Recv(cache_chan)
       IN  /\ cache_busy' = Some(r.request)
           /\ cache_chan' = r.chan
           /\ cache_taken' = Append(cache_taken, r.request)
    /\ UNCHANGED <<cache_present, cache_missing0, scan_pc, scan_pos, cache_sent>>
    /\ UNCHANGED <<cache_senders, cache_rx, scan_dropped, cache_results>>
    /\ UNCHANGED lockVars
    /\ UNCHANGED uploadVars
    /\ UNCHANGED flashVars
    /\ UNCHANGED endpointVars
    /\ UNCHANGED workerVars
    /\ UNCHANGED lockEndpointVars

\* cache_worker.rs:80-97, 23-47: create_cached_image writes the cache file
\* unless the source cannot be opened or the blocking task panics; the
\* worker prints the result and loops.
CacheCreate ==
    /\ cache_rx = "open"
    /\ IsSome(cache_busy)
    /\ LET outcome == CreateOutcome(Unwrap(cache_busy).image)
       IN  /\ cache_present' = IF outcome = "ok"
                               THEN cache_present \cup {Unwrap(cache_busy).image}
                               ELSE cache_present
           /\ cache_results' = Append(cache_results, outcome)
           /\ cache_rx' = LoopAfter(outcome)
    /\ cache_busy' = NoneOpt
    /\ UNCHANGED <<cache_missing0, scan_pc, scan_pos, cache_chan, cache_sent, cache_taken>>
    /\ UNCHANGED <<cache_senders, scan_dropped>>
    /\ UNCHANGED lockVars
    /\ UNCHANGED uploadVars
    /\ UNCHANGED flashVars
    /\ UNCHANGED endpointVars
    /\ UNCHANGED workerVars
    /\ UNCHANGED lockEndpointVars

\* cache_worker.rs:79, 100: rx.recv().await returns None, when the channel
\* is empty and every sender has been dropped; the loop ends and the task
\* drops the receiver.
CacheStop ==
    /\ cache_rx = "open"
    /\ cache_busy = NoneOpt
    /\ cache_chan = <<>>
    /\ cache_senders = {}
    /\ cache_rx' = "closed"
    /\ UNCHANGED <<cache_present, cache_missing0, scan_pc, scan_pos, cache_chan, cache_busy,
                   cache_sent, cache_taken, cache_senders, scan_dropped, cache_results>>
    /\ UNCHANGED lockVars
    /\ UNCHANGED uploadVars
    /\ UNCHANGED flashVars
    /\ UNCHANGED endpointVars
    /\ UNCHANGED workerVars
    /\ UNCHANGED lockEndpointVars

\* cache_worker.rs:123: the sender that Rocket manages is dropped with the
\* Rocket instance, at shutdown.
ManagedDropped ==
    /\ "managed" \in cache_senders
    /\ cache_senders' = cache_senders \ {"managed"}
    /\ UNCHANGED <<cache_present, cache_missing0, scan_pc, scan_pos, cache_chan, cache_busy,
                   cache_sent, cache_taken, cache_rx, scan_dropped, cache_results>>
    /\ UNCHANGED lockVars
    /\ UNCHANGED uploadVars
    /\ UNCHANGED flashVars
    /\ UNCHANGED endpointVars
    /\ UNCHANGED workerVars
    /\ UNCHANGED lockEndpointVars

\* cache_worker.rs:76: the worker task is gone before its loop has ended (the
\* runtime cancels it at an await, or it panics): the receiver is dropped
\* with the requests it buffers.  A blocking task that was started runs to
\* its end all the same.
WorkerTaskGone ==
    /\ cache_rx = "open"
    /\ Len(cache_taken) <= MaxTakenBeforeGone
    /\ cache_rx' = "closed"
    /\ cache_chan' = <<>>
    /\ cache_busy' = NoneOpt
    /\ cache_present' = IF IsSome(cache_busy) /\ CreateOutcome(Unwrap(cache_busy).image) = "ok"
                        THEN cache_present \cup {Unwrap(cache_busy).image}
                        ELSE cache_present
    /\ UNCHANGED <<cache_missing0, scan_pc, scan_pos, cache_sent, cache_taken,
                   cache_senders, scan_dropped, cache_results>>
    /\ UNCHANGED lockVars
    /\ UNCHANGED uploadVars
    /\ UNCHANGED flashVars
    /\ UNCHANGED endpointVars
    /\ UNCHANGED workerVars
    /\ UNCHANGED lockEndpointVars

\* cache_worker.rs:116-137: the channel is created empty, the worker is
\* spawned at ignite and the scan, with a clone of the managed sender, at
\* liftoff.
InitCache ==
    /\ cache_present \in StartupCaches
    /\ cache_missing0 = ImageIds \ cache_present
    /\ scan_pc = "scan"
    /\ scan_pos = 1
    /\ cache_chan = <<>>
    /\ cache_busy = NoneOpt
    /\ cache_sent = <<>>
    /\ cache_taken = <<>>
    /\ cache_senders = {"managed", "scan"}
    /\ cache_rx = "open"
    /\ scan_dropped = <<>>
    /\ cache_results = <<>>

\* The scan task and the worker task, in any interleaving, and the drop of
\* the managed sender.
NextCache ==
    \/ ScanVisit
    \/ ScanSend
    \/ ScanFinish
    \/ CacheRecv
    \/ CacheCreate
    \/ CacheStop
    \/ ManagedDropped

\* The same with a worker task that can be gone at any time.
NextCacheFaulty ==
    \/ NextCache
    \/ WorkerTaskGone

\* main.rs:493-543: nothing is suspended in the lock endpoint at startup.
InitLockEndpoint ==
    /\ lock_req = NoneOpt
    /\ lock_resp = NoneOpt
    /\ unlock_resp = NoneOpt

----------------------------------------------------------------------------

(* main.rs: lock_image as the two critical sections it consists of *)

\* LockImageResponse, with the request it answers and the entry its
\* try_acquire_lock decided on.
LockResp(locked, expires_in_secs, reason, req) ==
    [locked |-> locked, expires_in_secs |-> expires_in_secs, reason |-> reason,
     filename |-> req.filename, session_id |-> req.session_id, found |-> req.found]

\* main.rs:493-510: the name is sanitized and try_acquire_lock runs under the
\* mutex of the lock map; the mutex is free again when it returns.
LockImageTry(raw, session_id, refresh_only) ==
    /\ lock_req = NoneOpt
    /\ LET name == sanitize_filename(raw)
           req == [filename |-> UnwrapOr(name, None), session_id |-> session_id,
                   ok |-> FALSE, found |-> NoneOpt]
       IN  IF ~IsSome(name)
           THEN /\ lock_resp' = Some(LockResp(FALSE, NoneOpt, "Invalid filename", req))
                /\ UNCHANGED <<locks, lock_req>>
           ELSE LET r == try_acquire_lock(locks, instant, Unwrap(name),
                                          session_id, refresh_only)
                IN  /\ locks' = r.locks
                    /\ lock_req' = Some([req EXCEPT
                                          !.ok = r.ok,
                                          !.found = Get(Retain(locks, instant), Unwrap(name))])
                    /\ UNCHANGED lock_resp
    /\ UNCHANGED <<instant, env_lock_secs, lock_ret>>
    /\ UNCHANGED unlock_resp
    /\ UNCHANGED uploadVars
    /\ UNCHANGED flashVars
    /\ UNCHANGED endpointVars
    /\ UNCHANGED workerVars
    /\ UNCHANGED cacheVars

\* main.rs:511-533: get_lock_remaining_secs takes the mutex again and the
\* response is built from what it reads then.
LockImageRespond ==
    /\ IsSome(lock_req)
    /\ LET req == Unwrap(lock_req)
           expires_in == get_lock_remaining_secs(locks, instant, req.filename)
       IN  lock_resp' =
               IF req.ok
               THEN Some(LockResp(TRUE, Some(UnwrapOr(expires_in, LOCK_DURATION_SECS)),
                                  "", req))
               ELSE Some(LockResp(FALSE, expires_in,
                                  "Image is being edited by another user", req))
    /\ lock_req' = NoneOpt
    /\ UNCHANGED lockVars
    /\ UNCHANGED unlock_resp
    /\ UNCHANGED uploadVars
    /\ UNCHANGED flashVars
    /\ UNCHANGED endpointVars
    /\ UNCHANGED workerVars
    /\ UNCHANGED cacheVars

\* Raw file names of the lock request that is taken through its two
\* critical sections: a plain name and one that is rejected.
LockTryRawNames == {<<"a.png">>, <<"a.png", "..">>}

\* Mutant of unlock_success: the boolean release_lock returned is reported.
unlock_success_ReportsOutcome(released) == released.ok

\* main.rs:574-577: `Ok(_)` is answered with success: true, whatever the
\* boolean inside; release_lock has no path that returns Err.
unlock_success(released) == TRUE

\* UnlockImageResponse, with the request it answers and the entry
\* release_lock found.
UnlockResp(success, name, session_id) ==
    [success |-> success, filename |-> name, session_id |-> session_id,
     found |-> IF IsSome(name) THEN Get(locks, Unwrap(name)) ELSE NoneOpt]

\* main.rs:561-578: POST /api/unlock-image with its response.
UnlockImageAnswer(raw, session_id) ==
    /\ LET name == sanitize_filename(raw)
       IN  IF ~IsSome(name)
           THEN /\ unlock_resp' = Some(UnlockResp(FALSE, name, session_id))
                /\ UNCHANGED locks
           ELSE LET released == release_lock(locks, Unwrap(name), session_id)
                IN  /\ locks' = released.locks
                    /\ unlock_resp' = Some(UnlockResp(unlock_success(released),
                                                      name, session_id))
    /\ UNCHANGED <<instant, env_lock_secs, lock_ret>>
    /\ UNCHANGED <<lock_req, lock_resp>>
    /\ UNCHANGED uploadVars
    /\ UNCHANGED flashVars
    /\ UNCHANGED endpointVars
    /\ UNCHANGED workerVars
    /\ UNCHANGED cacheVars

\* Lock and unlock requests of any session on any name, and the clock.
NextUnlock ==
    \/ \E raw \in LockRawNames, s \in Sessions : LockImage(raw, s, FALSE)
    \/ \E raw \in LockRawNames, s \in Sessions : UnlockImageAnswer(raw, s)
    \/ Tick

\* One lock request taken through its two critical sections, interleaved
\* with whole lock and unlock requests of any session on any key (a request
\* on one key purges the expired entries of all keys) and with the clock.
NextLockEndpoint ==
    \/ \E raw \in LockTryRawNames, s \in Sessions, r \in BOOLEAN : LockImageTry(raw, s, r)
    \/ LockImageRespond
    \/ \E raw \in LockRawNames, s \in Sessions : LockImage(raw, s, FALSE)
    \/ \E raw \in LockRawNames, s \in Sessions : UnlockImage(raw, s)
    \/ Tick

----------------------------------------------------------------------------

(* Specifications *)

\* Every subsystem in its state after startup.
InitAll ==
    InitLocks /\ InitUploads /\ InitFlash /\ InitEndpoints /\ InitWorker
    /\ InitLockEndpoint /\ InitCache

\* Locks, uploads and flashing do not read the cache directory: it is left
\* complete.
Init == InitAll /\ cache_present = ImageIds

\* The flash queue does not read the lock duration: it is left at its default.
InitQueue == Init /\ env_lock_secs = NoneOpt

\* The lock registry under any sequence of calls and clock ticks.
SpecLocks == Init /\ [][NextLocks]_vars

\* The lock and upload endpoints under any interleaving of requests.
SpecUploads == Init /\ [][NextUploads]_vars

\* The FlashQueue under any sequence of calls of its methods and clock ticks.
SpecQueue == InitQueue /\ [][NextQueue]_vars

\* The flash endpoint under any interleaving with the lock endpoints.
SpecFlash == InitQueue /\ [][NextFlash]_vars

\* The worker task under any interleaving with requests and clock ticks.
SpecWorker == InitQueue /\ [][NextWorker]_vars

\* The worker task keeps running and every command it invokes returns.
SpecWorkerLive == SpecWorker /\ WF_vars(WorkerNext)

\* The worker task under any interleaving with requests that enqueue and
\* requests that poll the status of a job, all within one reading of the
\* system clock.
SpecStatus == InitQueue /\ [][NextStatus]_vars

\* The flash endpoint of a request that passes its checks, under any
\* interleaving with the worker task.
SpecSubmit == InitQueue /\ [][NextSubmit]_vars

\* The unlock endpoint under any interleaving with lock requests.
SpecUnlock == InitQueue /\ [][NextUnlock]_vars

\* The lock endpoint under any interleaving of its requests.
SpecLockEndpoint == InitQueue /\ [][NextLockEndpoint]_vars

\* The startup cache scan and the cache worker, from any startup state of
\* the cache directory.
InitScan == InitAll /\ env_lock_secs = NoneOpt
SpecCache == InitScan /\ [][NextCache]_vars

\* The cache worker task keeps running: it receives when a request is
\* buffered and create_cached_image returns.
SpecCacheLive == SpecCache /\ WF_vars(CacheRecv \/ CacheCreate)

\* The startup cache scan with a worker task that can be gone; the scan task
\* and, while it is there, the worker task keep running.
SpecCacheFaulty ==
    /\ InitScan /\ [][NextCacheFaulty]_vars
    /\ WF_vars(ScanVisit \/ ScanSend \/ ScanFinish)
    /\ WF_vars(CacheRecv \/ CacheCreate)

----------------------------------------------------------------------------
(* Claims about the flash queue, checked under SpecQueue *)

\* The jobs the queue holds: current slot, waiting list and retained list.
HeldJobs ==
    {flash_queue.queue[i] : i \in 1..Len(flash_queue.queue)}
    \cup {flash_queue.recent_jobs[i] : i \in 1..Len(flash_queue.recent_jobs)}
    \cup (IF IsSome(flash_queue.current_job)
          THEN {Unwrap(flash_queue.current_job)} ELSE {})

\* The current slot holds a job that is neither Completed nor Failed.
CurrentNonTerminal ==
    /\ IsSome(flash_queue.current_job)
    /\ Unwrap(flash_queue.current_job).status \in {"Queued", "Flashing"}

\* C1: in every reachable state at most one job is active (handed out by
\* dequeue and not yet marked, status Flashing), and it is the job in the
\* current slot; a dequeue called while the current slot holds a non-terminal
\* job returns nothing and leaves the queue as it is.
C1_DeviceMutualExclusion ==
    /\ [](/\ Cardinality(flashing) <= 1
          /\ {j.job_id : j \in {h \in HeldJobs : h.status = "Flashing"}} = flashing
          /\ flashing # {} => (/\ CurrentIsFlashing
                               /\ Unwrap(flash_queue.current_job).job_id \in flashing))
    /\ [][(Dequeue /\ CurrentNonTerminal)
            => (/\ started' = started
                /\ flash_queue' = flash_queue)]_vars

\* C1 witness: the last dequeue returned nothing although a job is waiting,
\* because the current job is still Flashing.
C1_Witness ==
    /\ queue_ret = QueueRet("dequeue", NoneOpt)
    /\ CurrentIsFlashing
    /\ flash_queue.queue # <<>>
    /\ flashing = {Unwrap(flash_queue.current_job).job_id}

\* C2: jobs are started in the order in which they were enqueued: the jobs
\* returned by dequeue are, in order, the first jobs returned by enqueue, so
\* their ids increase.
C2_StrictFifo ==
    /\ Len(started) <= Len(issued)
    /\ \A i \in 1..Len(started) : started[i] = issued[i]
    /\ \A i, j \in 1..Len(started) : i < j => started[i] < started[j]

\* C2 witness: two jobs have been started, and the second was already waiting
\* before the first was started.
C2_Witness ==
    /\ Len(started) = 2
    /\ IsSome(flash_queue.current_job)
    /\ Unwrap(flash_queue.current_job).job_id = started[2]
    /\ \E j \in HeldJobs :
          /\ j.job_id = started[1]
          /\ Unwrap(flash_queue.current_job).created_at < Unwrap(j.started_at)

\* C3: the ids returned by enqueue start at 1 and strictly increase over the
\* whole history of calls, so they are unique and an id is not used again
\* after its job was evicted.
C3_JobIdsIncrease ==
    /\ (issued # <<>> => issued[1] = 1)
    /\ \A i, j \in 1..Len(issued) : i < j => issued[i] < issued[j]

\* C3 witness: the last call was an enqueue and an earlier job is no longer
\* found, its retention window having elapsed.
C3_Witness ==
    /\ Len(issued) = 2
    /\ queue_ret = QueueRet("enqueue", Some(issued[2]))
    /\ find_job(flash_queue, issued[1]) = NoneOpt
    /\ find_job(flash_queue, issued[2]) # NoneOpt

----------------------------------------------------------------------------
(* Claims about the lock registry, checked under SpecLocks *)

\* The entry of k exists and its expiry instant lies after the clock.
Unexpired(k) == k \in DOMAIN locks /\ locks[k].expires_at > instant

\* The entry of k exists and the clock has reached its expiry instant.
Expired(k) == k \in DOMAIN locks /\ locks[k].expires_at <= instant

\* The entry the last call found was owned by another session than the caller's.
FoundOther ==
    /\ IsSome(lock_ret.found)
    /\ Unwrap(lock_ret.found).session_id # lock_ret.session_id

\* C4: while a lock on k owned by s1 is unexpired, try_acquire_lock(k, s2, r)
\* by every other session s2 returns false, and the entry of k keeps its
\* owner and its expiry.
C4_LockExclusion ==
    [][\A k \in Keys, s2 \in Sessions, r \in BOOLEAN :
         (/\ Unexpired(k)
          /\ locks[k].session_id # s2
          /\ TryAcquireLock(k, s2, r))
         => (/\ lock_ret'.result = FALSE
             /\ k \in DOMAIN locks'
             /\ locks'[k] = locks[k])]_vars

\* C4 witness: a non-refresh acquire by another session was just denied on a
\* lock that is still unexpired.
C4_Witness ==
    /\ lock_ret.op = "try_acquire_lock"
    /\ ~lock_ret.refresh_only
    /\ ~lock_ret.result
    /\ FoundOther
    /\ Unwrap(lock_ret.found).expires_at > lock_ret.at
    /\ Get(locks, lock_ret.filename) = lock_ret.found

\* C5: try_acquire_lock(k, s, refresh_only = true) on a key with no entry or
\* with an expired entry (of any owner, s included) returns false and leaves
\* no entry for k.
C5_RefreshOnlyNeverCreates ==
    [][\A k \in Keys, s \in Sessions :
         (/\ ~Unexpired(k)
          /\ TryAcquireLock(k, s, TRUE))
         => (/\ lock_ret'.result = FALSE
             /\ k \notin DOMAIN locks')]_vars

\* C5 witness: a refresh_only acquire by the former owner of an expired entry
\* was denied and the key has no entry.
C5_Witness ==
    /\ lock_ret.op = "try_acquire_lock"
    /\ lock_ret.refresh_only
    /\ ~lock_ret.result
    /\ IsSome(lock_ret.found)
    /\ Unwrap(lock_ret.found).session_id = lock_ret.session_id
    /\ Unwrap(lock_ret.found).expires_at <= lock_ret.at
    /\ lock_ret.filename \notin DOMAIN locks

\* C6: try_acquire_lock(k, s1, _) on an unexpired lock owned by s1 returns
\* true, keeps s1 as owner and sets the expiry to now + the configured
\* duration, which is not earlier than the previous expiry.
C6_OwnerRefresh ==
    [][\A k \in Keys, s1 \in Sessions, r \in BOOLEAN :
         (/\ Unexpired(k)
          /\ locks[k].session_id = s1
          /\ TryAcquireLock(k, s1, r))
         => (/\ lock_ret'.result = TRUE
             /\ k \in DOMAIN locks'
             /\ locks'[k].session_id = s1
             /\ locks'[k].expires_at = instant + get_lock_duration_secs
             /\ locks'[k].expires_at >= locks[k].expires_at)]_vars

\* C6 witness: the owner refreshed its unexpired lock after time had passed,
\* and the expiry moved forward.
C6_Witness ==
    /\ lock_ret.op = "try_acquire_lock"
    /\ lock_ret.result
    /\ IsSome(lock_ret.found)
    /\ Unwrap(lock_ret.found).session_id = lock_ret.session_id
    /\ Unwrap(lock_ret.found).expires_at > lock_ret.at
    /\ lock_ret.filename \in DOMAIN locks
    /\ locks[lock_ret.filename].expires_at > Unwrap(lock_ret.found).expires_at

\* The entries of every key but k are the same before and after the step.
OtherKeysUnchanged(k) ==
    \A j \in Keys \ {k} : Get(locks', j) = Get(locks, j)

\* C7: release_lock(k, s) returns true and changes nothing when k has no
\* entry; removes the entry and returns true when s owns it; returns false
\* and leaves the entry intact when another session owns it; the entries of
\* the other keys are unchanged in every case.
C7_Release ==
    [][\A k \in Keys, s \in Sessions :
         ReleaseLock(k, s)
         => (/\ (k \notin DOMAIN locks
                   => lock_ret'.result = TRUE /\ locks' = locks)
             /\ (k \in DOMAIN locks /\ locks[k].session_id = s
                   => lock_ret'.result = TRUE /\ k \notin DOMAIN locks')
             /\ (k \in DOMAIN locks /\ locks[k].session_id # s
                   => (/\ lock_ret'.result = FALSE
                       /\ Get(locks', k) = Get(locks, k)))
             /\ OtherKeysUnchanged(k))]_vars

\* C7 witness: a release by a session that is not the owner was denied, the
\* entry is still there, and another key holds a lock as well.
C7_Witness ==
    /\ lock_ret.op = "release_lock"
    /\ ~lock_ret.result
    /\ FoundOther
    /\ Get(locks, lock_ret.filename) = lock_ret.found
    /\ \E j \in Keys \ {lock_ret.filename} : j \in DOMAIN locks

\* C8: verify_lock_ownership(k, s) returns true exactly when, at the call, k
\* has an entry whose expiry has not passed and whose owner is s; so for one
\* key at most one session passes verification at one instant.
C8_VerifyOwnership ==
    /\ [][\A k \in Keys, s \in Sessions :
            VerifyLockOwnership(k, s)
            => (lock_ret'.result <=> (Unexpired(k) /\ locks[k].session_id = s))]_vars
    /\ [](\A k \in Keys :
            Cardinality({s \in Sessions :
                verify_lock_ownership(locks, instant, k, s).ok}) <= 1)

\* C8 witness: verification of the former owner failed because the entry had
\* reached its expiry instant.
C8_Witness ==
    /\ lock_ret.op = "verify_lock_ownership"
    /\ ~lock_ret.result
    /\ IsSome(lock_ret.found)
    /\ Unwrap(lock_ret.found).session_id = lock_ret.session_id
    /\ Unwrap(lock_ret.found).expires_at = lock_ret.at

\* C9: once the expiry instant of a lock on k has passed, a non-refresh
\* try_acquire_lock(k, s2) by another session is granted and s2 becomes the
\* owner, also when the expired entry is still in the map.
C9_AbandonedLockExpires ==
    [][\A k \in Keys, s2 \in Sessions :
         (/\ Expired(k)
          /\ locks[k].session_id # s2
          /\ TryAcquireLock(k, s2, FALSE))
         => (/\ lock_ret'.result = TRUE
             /\ k \in DOMAIN locks'
             /\ locks'[k] = ImageLock(s2, instant + get_lock_duration_secs))]_vars

\* C9 witness: another session was granted a lock whose expired entry was
\* still in the map when it called.
C9_Witness ==
    /\ lock_ret.op = "try_acquire_lock"
    /\ ~lock_ret.refresh_only
    /\ lock_ret.result
    /\ FoundOther
    /\ Unwrap(lock_ret.found).expires_at <= lock_ret.at
    /\ Get(locks, lock_ret.filename)
         = Some(ImageLock(lock_ret.session_id, lock_ret.at + get_lock_duration_secs))

----------------------------------------------------------------------------
(* Claims about the upload endpoints, checked under SpecUploads *)

\* Session s owns the unexpired lock on k.
OwnsUnexpired(k, s) == Unexpired(k) /\ locks[k].session_id = s

\* The requester of an upload owns the unexpired lock on k.
RequesterOwns(k, session_id) ==
    IsSome(session_id) /\ OwnsUnexpired(k, Unwrap(session_id))

\* The step is the lock check of an upload request for raw name raw.
UploadCheckStep(raw, session_id, settings) ==
    \/ UploadDitheredCheck(raw, session_id)
    \/ UploadCacheCheck(raw, session_id, settings)

\* The step is the file copy of the upload request in flight.
UploadWriteStep ==
    \E copied \in BOOLEAN : UploadDitheredWrite(copied) \/ UploadCacheWrite(copied)

FilesUnchanged == UNCHANGED <<dithered_files, cache_files>>

\* The step copies the uploaded file of the request in flight to disk.
UploadCopied == UploadDitheredWrite(TRUE) \/ UploadCacheWrite(TRUE)

----------------------------------------------------------------------------
(* Claims about the flash endpoints, checked under SpecFlash *)

\* The step is the check of a flash request of session s for raw name raw.
FlashCheckStep(raw, s) ==
    \E twice, snap \in BOOLEAN : SubmitFlashCheck(raw, s, twice, snap)

\* C11: a flash request whose file name is invalid, or whose session does not
\* own the unexpired lock on the named image, is rejected and leaves the flash
\* queue as it is; a request goes on to enqueue only when its session owned
\* the unexpired lock at its check; and the flash queue changes only by the
\* enqueue of a request that went past its check, for the image it named.
C11_FlashGate ==
    [][/\ \A raw \in FlashRawNames, s \in Sessions :
            (/\ FlashCheckStep(raw, s)
             /\ ~(/\ IsSome(sanitize_filename(raw))
                  /\ OwnsUnexpired(Unwrap(sanitize_filename(raw)), s)))
            => (/\ flash_req' = NoneOpt
                /\ flash_ret'.endpoint = "flash"
                /\ flash_ret'.status =
                      (IF IsSome(sanitize_filename(raw)) THEN 403 ELSE 400)
                /\ flash_queue' = flash_queue)
       /\ (flash_req = NoneOpt /\ IsSome(flash_req'))
            => OwnsUnexpired(Unwrap(flash_req').filename, Unwrap(flash_req').session_id)
       /\ (flash_queue' # flash_queue)
            => (/\ IsSome(flash_req)
                /\ flash_req' = NoneOpt
                /\ flash_queue'.queue =
                      Append(flash_queue.queue,
                             FlashJob(flash_queue.next_job_id, Unwrap(flash_req).filename,
                                      Unwrap(flash_req).flash_twice, now_ms))
                /\ flash_ret'.status = 200
                /\ flash_ret'.job_id = Some(flash_queue.next_job_id))]_vars

\* C11 witness: a flash request for an image was refused with 403 while
\* the other session held the unexpired lock on it, the dithered file being
\* there and an earlier request of the owner having been enqueued.
C11_Witness ==
    /\ flash_ret.endpoint = "flash"
    /\ flash_ret.status = 403
    /\ flash_req = NoneOpt
    /\ dithered_files["a.png"]
    /\ Unexpired("a.png")
    /\ Len(flash_queue.queue) = 1
    /\ flash_queue.queue[1].filename = "a.png"

----------------------------------------------------------------------------
(* Claims about the functions of the flash queue, checked under SpecQueue *)

\* The job in the current slot has this id.
IsCurrent(id) ==
    IsSome(flash_queue.current_job) /\ Unwrap(flash_queue.current_job).job_id = id

\* The k-th job of the waiting list has this id.
IsWaitingAt(id, k) ==
    k \in 1..Len(flash_queue.queue) /\ flash_queue.queue[k].job_id = id

\* C12: get_position(id) is 0 exactly when id is the job in the current slot,
\* is k >= 1 exactly when id is the k-th job of the waiting list, and is none
\* for every other id; two jobs enqueued and none dequeued are at 1 and 2, and
\* after one dequeue at 0 and 1.
C12_GetPosition ==
    /\ \A id \in JobIds :
          /\ get_position(flash_queue, id) = Some(0) <=> IsCurrent(id)
          /\ \A k \in 1..(MaxJobs + 1) :
                get_position(flash_queue, id) = Some(k)
                   <=> (~IsCurrent(id) /\ IsWaitingAt(id, k))
          /\ get_position(flash_queue, id) = NoneOpt
                <=> (~IsCurrent(id) /\ \A k \in 1..Len(flash_queue.queue) : ~IsWaitingAt(id, k))
    /\ (Len(issued) = 2 /\ started = <<>>)
          => (/\ get_position(flash_queue, issued[1]) = Some(1)
              /\ get_position(flash_queue, issued[2]) = Some(2))
    /\ (Len(issued) = 2 /\ started = <<issued[1]>> /\ CurrentNonTerminal)
          => (/\ get_position(flash_queue, issued[1]) = Some(0)
              /\ get_position(flash_queue, issued[2]) = Some(1))

\* C12 witness: two jobs were enqueued and then one dequeue was made: the first
\* is at position 0, the second at 1, and an id never given out has none.
C12_Witness ==
    /\ Len(issued) = 2
    /\ started = <<issued[1]>>
    /\ queue_ret = QueueRet("dequeue", Some(issued[1]))
    /\ get_position(flash_queue, issued[1]) = Some(0)
    /\ get_position(flash_queue, issued[2]) = Some(1)
    /\ get_position(flash_queue, MaxJobs + 1) = NoneOpt

\* The current slot holds a job that is Completed or Failed.
CurrentTerminal ==
    /\ IsSome(flash_queue.current_job)
    /\ Unwrap(flash_queue.current_job).status \in {"Completed", "Failed"}

\* C13: a dequeue that finds a terminal job in the current slot appends that
\* job to the retained list and takes it out of the slot, also when nothing is
\* waiting; after the call find_job returns the finished job as it was, and
\* the head of the waiting list, if there was one, is the current job with
\* status Flashing and is the job returned.
C13_DequeueRetainsFinished ==
    [][(Dequeue /\ CurrentTerminal)
         => LET finished == Unwrap(flash_queue.current_job) IN
            /\ flash_queue'.recent_jobs = Append(flash_queue.recent_jobs, finished)
            /\ find_job(flash_queue', finished.job_id) = Some(finished)
            /\ (flash_queue.queue = <<>>
                  => (/\ flash_queue'.current_job = NoneOpt
                      /\ queue_ret'.job_id = NoneOpt))
            /\ (flash_queue.queue # <<>>
                  => (/\ IsSome(flash_queue'.current_job)
                      /\ Unwrap(flash_queue'.current_job).job_id
                            = Head(flash_queue.queue).job_id
                      /\ Unwrap(flash_queue'.current_job).status = "Flashing"
                      /\ queue_ret'.job_id = Some(Head(flash_queue.queue).job_id)
                      /\ find_job(flash_queue', Head(flash_queue.queue).job_id)
                            = flash_queue'.current_job))]_vars

\* C13 witness: the second job is current and Flashing, having been dequeued
\* while the first, Completed, was in the current slot; the first is found in
\* the retained list.
C13_Witness ==
    /\ Len(started) = 2
    /\ queue_ret = QueueRet("dequeue", Some(started[2]))
    /\ CurrentIsFlashing
    /\ Unwrap(flash_queue.current_job).job_id = started[2]
    /\ Len(flash_queue.recent_jobs) = 1
    /\ IsSome(find_job(flash_queue, started[1]))
    /\ Unwrap(find_job(flash_queue, started[1])).status = "Completed"
    /\ Unwrap(find_job(flash_queue, started[1])).finished_at
          = Unwrap(flash_queue.current_job).started_at

\* C14: find_job returns a job from the call of enqueue that created it on,
\* and a job that find_job returns stops being returned only in a step in
\* which it is Completed or Failed and the clock is more than the retention
\* window (30 s) past its finish time.
C14_RetentionWindow ==
    /\ [][\A sub \in FlashSubmissions :
            Enqueue(sub[1], sub[2])
               => (/\ IsSome(find_job(flash_queue', flash_queue.next_job_id))
                   /\ Unwrap(find_job(flash_queue', flash_queue.next_job_id)).status
                         = "Queued")]_vars
    /\ [][\A id \in JobIds :
            (/\ IsSome(find_job(flash_queue, id))
             /\ ~IsSome(find_job(flash_queue', id)))
            => LET job == Unwrap(find_job(flash_queue, id)) IN
               /\ job.status \in {"Completed", "Failed"}
               /\ IsSome(job.finished_at)
               /\ now_ms' - Unwrap(job.finished_at) > 30000
               /\ now_ms' = now_ms]_vars

\* C14 witness: the first job is no longer found, while the second, finished
\* exactly one retention window ago, is still in the retained list.
C14_Witness ==
    /\ Len(issued) = 2
    /\ ~IsSome(find_job(flash_queue, issued[1]))
    /\ Len(flash_queue.recent_jobs) = 1
    /\ flash_queue.recent_jobs[1].job_id = issued[2]
    /\ now_ms - Unwrap(flash_queue.recent_jobs[1].finished_at) = 30000

----------------------------------------------------------------------------
(* Claims about the worker task, checked under SpecWorker and SpecWorkerLive *)

\* The status changes a step may make to a job.
LifecycleSteps ==
    {<<"Queued", "Flashing">>, <<"Flashing", "Completed">>, <<"Flashing", "Failed">>}

\* C15: a job enters the queue as Queued, and in every step the status of a
\* job either stays as it is or moves from Queued to Flashing, from Flashing to
\* Completed or from Flashing to Failed; so it never moves backwards, never
\* leaves out Flashing and never changes once Completed or Failed.
C15_JobLifecycle ==
    [][\A id \in JobIds :
         /\ (~IsSome(find_job(flash_queue, id)) /\ IsSome(find_job(flash_queue', id)))
               => Unwrap(find_job(flash_queue', id)).status = "Queued"
         /\ (IsSome(find_job(flash_queue, id)) /\ IsSome(find_job(flash_queue', id)))
               => LET before == Unwrap(find_job(flash_queue, id)).status
                      after == Unwrap(find_job(flash_queue', id)).status IN
                  \/ after = before
                  \/ <<before, after>> \in LifecycleSteps]_vars

\* C15 witness: the worker has marked two jobs: the first, Failed, is in the
\* retained list and the second, Completed, in the current slot.
C15_Witness ==
    /\ worker_pc = "lock_poll"
    /\ Len(started) = 2
    /\ IsSome(find_job(flash_queue, started[1]))
    /\ Unwrap(find_job(flash_queue, started[1])).status = "Failed"
    /\ IsSome(flash_queue.current_job)
    /\ Unwrap(flash_queue.current_job).job_id = started[2]
    /\ Unwrap(flash_queue.current_job).status = "Completed"

\* The last invocation of the command exited non-zero or could not be launched.
LastInvocationFailed ==
    outcomes # <<>> /\ outcomes[Len(outcomes)] \in {"exit", "spawn"}

\* C16: when an invocation of the command exits non-zero or cannot be
\* launched, execute_flash returns an error, which the worker records: the
\* current job becomes Failed with the error text as its message, and the
\* worker is back at the top of its loop; its next poll with a Failed current
\* job and a job waiting dequeues the head of the waiting list; and whenever
\* the current job is Failed and a job is waiting, the worker eventually is
\* executing a job again.
C16_FailureNotFatal ==
    /\ [](LastInvocationFailed
            => (/\ worker_pc \in {"lock_mark", "mark", "lock_poll", "poll"}
                /\ IsSome(worker_result)
                /\ ~Unwrap(worker_result).ok
                /\ IsSome(Unwrap(worker_result).error)))
    /\ [][(WorkerMark /\ LastInvocationFailed)
            => (/\ IsSome(flash_queue'.current_job)
                /\ Unwrap(flash_queue'.current_job)
                      = [Unwrap(worker_job) EXCEPT
                            !.status = "Failed",
                            !.finished_at = Some(now_ms),
                            !.error_message = Unwrap(worker_result).error]
                /\ worker_pc' = "lock_poll"
                /\ queue_mutex' = "free")]_vars
    /\ [][(/\ WorkerPoll
            /\ IsSome(flash_queue.current_job)
            /\ Unwrap(flash_queue.current_job).status = "Failed"
            /\ flash_queue.queue # <<>>)
            => (/\ worker_pc' = "exec"
                /\ worker_job' = Some([Head(flash_queue.queue) EXCEPT
                                          !.status = "Flashing",
                                          !.started_at = Some(now_ms)])
                /\ flash_queue'.current_job = worker_job')]_vars
    /\ (/\ IsSome(flash_queue.current_job)
        /\ Unwrap(flash_queue.current_job).status = "Failed"
        /\ flash_queue.queue # <<>>)
          ~> (worker_pc = "exec" /\ CurrentIsFlashing)

\* C16 witness: the worker is executing the second job, which was already
\* waiting when the first was marked Failed; the first is found with its
\* error message.
C16_Witness ==
    /\ worker_pc = "exec"
    /\ Len(started) = 2
    /\ Unwrap(worker_job).job_id = started[2]
    /\ IsCurrent(started[2])
    /\ IsSome(find_job(flash_queue, started[1]))
    /\ LET failed == Unwrap(find_job(flash_queue, started[1])) IN
       /\ failed.status = "Failed"
       /\ failed.error_message \in {Some(ExecError(1, o)) : o \in {"exit", "spawn"}}
       /\ Unwrap(worker_job).created_at < Unwrap(failed.finished_at)

\* Every invocation made for the worker's job ended with exit status zero.
AllInvocationsOk == \A i \in 1..Len(outcomes) : outcomes[i] = "ok"

\* The number of invocations the worker's job asks for.
Requested == IF Unwrap(worker_job).flash_twice THEN 2 ELSE 1

\* C17: the command is invoked a second time only for a job with flash_twice
\* whose first invocation succeeded; when the first invocation fails no second
\* is made and the job is marked Failed with the error of the first; and the
\* worker marks a job Completed exactly when every invocation the job asks for
\* (one, or two with flash_twice) was made and succeeded.
C17_RepeatSemantics ==
    /\ [](outcomes # <<>>
            => (/\ IsSome(worker_job)
                /\ Len(outcomes) <= Requested
                /\ (Len(outcomes) = 2 => outcomes[1] = "ok")))
    /\ [][\A outcome \in Outcomes :
            (WorkerInvoke(outcome) /\ outcomes # <<>>)
               => (Unwrap(worker_job).flash_twice /\ outcomes = <<"ok">>)]_vars
    /\ []((outcomes # <<>> /\ outcomes[1] # "ok")
            => (/\ Len(outcomes) = 1
                /\ worker_pc # "exec"
                /\ worker_result = Some(Err(ExecError(1, outcomes[1])))))
    /\ [][WorkerMark
            => (/\ IsSome(flash_queue'.current_job)
                /\ Unwrap(flash_queue'.current_job).job_id = Unwrap(worker_job).job_id
                /\ Unwrap(flash_queue'.current_job).status \in {"Completed", "Failed"}
                /\ Unwrap(flash_queue'.current_job).status = "Completed"
                      <=> (AllInvocationsOk /\ Len(outcomes) = Requested)
                /\ outcomes[1] # "ok"
                      => Unwrap(flash_queue'.current_job).error_message
                            = Some(ExecError(1, outcomes[1])))]_vars

\* C17 witness: a job with flash_twice was marked Failed with the error of
\* its first invocation, no second invocation having been made.
C17_Witness ==
    /\ worker_pc = "lock_poll"
    /\ outcomes = <<"exit">>
    /\ Unwrap(worker_job).flash_twice
    /\ IsCurrent(Unwrap(worker_job).job_id)
    /\ Unwrap(flash_queue.current_job).status = "Failed"
    /\ Unwrap(flash_queue.current_job).error_message = Some(ExecError(1, "exit"))

\* C18: the worker holds the queue mutex only in its two short sections (poll
\* and mark); in every state in which it is executing the command the mutex is
\* free, so that a status request for any id, and an enqueue, can take the
\* mutex and complete at once.
C18_CommandOutsideMutex ==
    /\ queue_mutex = "worker" <=> worker_pc \in {"poll", "mark"}
    /\ worker_pc = "exec"
          => (/\ queue_mutex = "free"
              /\ \A id \in JobIds : ENABLED FlashJobStatus(id)
              /\ flash_queue.next_job_id <= MaxJobs
                    => \A sub \in FlashSubmissions : ENABLED QueueRequest(sub[1], sub[2]))

\* C18 witness: a job was enqueued while the worker is executing the command
\* for the current job: it was created after the current job was started.
C18_Witness ==
    /\ worker_pc = "exec"
    /\ queue_mutex = "free"
    /\ CurrentIsFlashing
    /\ queue_ret.op = "enqueue"
    /\ flash_queue.queue # <<>>
    /\ flash_queue.queue[1].created_at > Unwrap(Unwrap(flash_queue.current_job).started_at)

\* The job with this id is in the waiting list of queue q.
Waiting(q, id) == \E k \in 1..Len(q.queue) : q.queue[k].job_id = id

\* The job with this id is found and is Completed or Failed.
Finished(id) ==
    /\ IsSome(find_job(flash_queue, id))
    /\ Unwrap(find_job(flash_queue, id)).status \in {"Completed", "Failed"}

\* The job with this id is held and is Queued or Flashing.
Unfinished(id) ==
    /\ IsSome(find_job(flash_queue, id))
    /\ Unwrap(find_job(flash_queue, id)).status \in {"Queued", "Flashing"}

\* C19: a job leaves the waiting list only in a step that makes it the
\* current job with status Flashing; an enqueue puts its job in the waiting
\* list; and, the worker being scheduled again and again and every command
\* returning, every job that is Queued or Flashing is eventually Completed
\* or Failed.
C19_NoJobLost ==
    /\ [][\A id \in JobIds :
            (Waiting(flash_queue, id) /\ ~Waiting(flash_queue', id))
               => (/\ IsSome(flash_queue'.current_job)
                   /\ Unwrap(flash_queue'.current_job).job_id = id
                   /\ Unwrap(flash_queue'.current_job).status = "Flashing"
                   /\ flash_queue.queue[1].job_id = id)]_vars
    /\ [][\A sub \in FlashSubmissions :
            QueueRequest(sub[1], sub[2])
               => Waiting(flash_queue', flash_queue.next_job_id)]_vars
    /\ \A id \in 1..MaxJobs : Unfinished(id) ~> Finished(id)

\* C19 witness: every job that was enqueued has been finished by the worker,
\* the last of them after waiting behind the one before it.
C19_Witness ==
    /\ Len(issued) = MaxJobs
    /\ started = issued
    /\ \A i \in 1..Len(issued) : Finished(issued[i])
    /\ \E j \in HeldJobs :
          /\ j.job_id = issued[1]
          /\ Unwrap(flash_queue.current_job).job_id = issued[MaxJobs]
          /\ Unwrap(flash_queue.current_job).created_at < Unwrap(j.finished_at)

----------------------------------------------------------------------------
(* Claims about the job-status endpoint, checked under SpecStatus *)

\* No call of enqueue has returned this id.
NeverIssued(id) == \A i \in 1..Len(issued) : issued[i] # id

\* C20: in every reachable state find_job and get_position return none for
\* every id that no call of enqueue has returned, and a job-status request
\* for such an id is answered 404 with no job, while a request for an id that
\* find_job finds is answered 200 with that job.
C20_NotFound ==
    /\ [](\A id \in JobIds :
             NeverIssued(id)
                => (/\ find_job(flash_queue, id) = NoneOpt
                    /\ get_position(flash_queue, id) = NoneOpt))
    /\ [][\A id \in JobIds :
            FlashJobStatus(id)
               => (/\ NeverIssued(id)
                      => flash_ret' = FlashRet("status", 404, Some(id), NoneOpt, NoneOpt)
                   /\ IsSome(find_job(flash_queue, id))
                      => (/\ flash_ret'.status = 200
                          /\ flash_ret'.job = find_job(flash_queue, id)
                          /\ Unwrap(flash_ret'.job).job_id = id))]_vars

\* C20 witness: with one job retained and one current, the status of the id
\* that the next enqueue would return was asked for and answered 404.
C20_Witness ==
    /\ Len(issued) = 2
    /\ flash_queue.next_job_id = 3
    /\ Len(flash_queue.recent_jobs) = 1
    /\ CurrentIsFlashing
    /\ flash_ret = FlashRet("status", 404, Some(3), NoneOpt, NoneOpt)

----------------------------------------------------------------------------
(* Claims about the startup cache scan and the cache worker, checked under
   SpecCache *)

\* The filter a request for an image has to carry: the one its metadata file
\* holds when the file parses and names a recognized filter, "bicubic"
\* otherwise.
PersistedOrDefault(image) ==
    LET file == MetadataFile(image)
    IN  IF /\ IsSome(file)
           /\ Unwrap(file).parses
           /\ Unwrap(file).filter \in {"bicubic", "lanczos", "mitchell", "bilinear", "nearest"}
        THEN Unwrap(file).filter
        ELSE "bicubic"

\* The images the channel has accepted a request for.
SentImages == {cache_sent[k].image : k \in 1..Len(cache_sent)}

\* C21: of the N source images at startup, M of which lack a cache file, the
\* scan submits exactly M requests: one for each image that lacked its cache
\* file, none for an image that had it, and each request carries the image's
\* persisted filter, or the default filter when none is stored or the stored
\* one is not recognized.  While the scan runs, the requests sent so far are
\* distinct requests of that kind.
C21_ScanRequests ==
    /\ SentImages \subseteq cache_missing0
    /\ Cardinality(SentImages) = Len(cache_sent)
    /\ \A k \in 1..Len(cache_sent) :
           cache_sent[k].filter = PersistedOrDefault(cache_sent[k].image)
    /\ scan_pc = "done" =>
           /\ SentImages = cache_missing0
           /\ Len(cache_sent) = Cardinality(cache_missing0)

\* The scan is over at a startup where some images had their cache file and
\* some lacked it: it sent one request per such image, among them one with a stored
\* filter, one with a default for an absent file and one with a default for
\* an unrecognized filter.
C21_Witness ==
    /\ scan_pc = "done"
    /\ cache_missing0 # {} /\ cache_missing0 # ImageIds
    /\ Len(cache_sent) = Cardinality(cache_missing0)
    /\ \E k \in 1..Len(cache_sent) : cache_sent[k].filter = "lanczos"
    /\ \E k \in 1..Len(cache_sent) :
           /\ MetadataFile(cache_sent[k].image) = NoneOpt
           /\ cache_sent[k].filter = "bicubic"
    /\ \E k \in 1..Len(cache_sent) :
           /\ IsSome(MetadataFile(cache_sent[k].image))
           /\ Unwrap(MetadataFile(cache_sent[k].image)).filter = "sepia"
           /\ cache_sent[k].filter = "bicubic"

\* C22: the single worker consumes every request the channel accepted
\* exactly once and in the order of sending: what the worker has received,
\* followed by what the channel still buffers, is what was sent; the request
\* the worker is working on is the last it received; and the worker, as long
\* as it keeps running, ends up having received every request sent.
C22_ConsumedInOrder ==
    /\ [](/\ cache_sent = cache_taken \o cache_chan
          /\ IsSome(cache_busy) =>
                 /\ cache_taken # <<>>
                 /\ Unwrap(cache_busy) = cache_taken[Len(cache_taken)])
    /\ <>[](cache_taken = cache_sent)

\* The worker is working on its third request or a later one while further
\* requests wait in the channel and the scan has more to send.
C22_Witness ==
    /\ IsSome(cache_busy)
    /\ Len(cache_taken) >= 3
    /\ Len(cache_chan) >= 2
    /\ scan_pc # "done"

\* C23 as stated: the submitter never waits on the channel, also not when
\* 100 requests are pending and the worker is busy.
C23_NeverWaits ==
    scan_pc # "send"

\* C23, amended: the channel buffers at most 100 requests; the submitter
\* starts to wait in its send only when 100 requests are pending, and its
\* send is accepted, without waiting for the worker to process anything,
\* whenever fewer than 100 are pending; a send that is accepted changes
\* neither the worker's progress nor the cache files.
C23_WaitsOnlyWhenFull ==
    /\ [](Len(cache_chan) <= CHANNEL_CAPACITY)
    /\ []((scan_pc = "send" /\ Len(cache_chan) < CHANNEL_CAPACITY) => ENABLED ScanSend)
    /\ [][(scan_pc # "send" /\ scan_pc' = "send") =>
              Len(cache_chan) = CHANNEL_CAPACITY]_vars
    /\ [][cache_sent' # cache_sent =>
              /\ Len(cache_chan) < CHANNEL_CAPACITY
              /\ UNCHANGED <<cache_taken, cache_busy, cache_present>>]_vars

\* The scan task is suspended in its send: 100 requests are pending and the
\* worker is busy with another one.
C23_Witness ==
    /\ scan_pc = "send"
    /\ Len(cache_chan) = CHANNEL_CAPACITY
    /\ IsSome(cache_busy)

----------------------------------------------------------------------------
(* Claims about lock ownership, checked under SpecLocks *)

\* C24: an unexpired entry is changed or removed only by a try_acquire_lock
\* or a release_lock of its own key by the session that owns it, and a
\* refresh leaves it with the same owner: no operation by another session,
\* on this key or on another one, changes its expiry, removes it or takes it
\* over.  The owner recorded for a key changes from one session to another
\* only when the entry has expired; otherwise a new owner appears only on a
\* key that has no entry, which is after a release by the owner or a purge
\* of the expired entry.
C24_OwnerOnly ==
    [][\A k \in Keys :
         /\ (/\ Unexpired(k)
             /\ k \notin DOMAIN locks' \/ locks'[k] # locks[k])
            => (/\ lock_ret'.op \in {"try_acquire_lock", "release_lock"}
                /\ lock_ret'.filename = k
                /\ lock_ret'.session_id = locks[k].session_id
                /\ lock_ret'.result = TRUE
                /\ k \in DOMAIN locks' => locks'[k].session_id = locks[k].session_id)
         /\ (/\ k \in DOMAIN locks
             /\ k \in DOMAIN locks'
             /\ locks'[k].session_id # locks[k].session_id)
            => Expired(k)]_vars

\* A release by a session that does not own the lock was just refused, the
\* entry is as the call found it and is still unexpired, while the other key
\* is locked too.
C24_Witness ==
    /\ lock_ret.op = "release_lock"
    /\ ~lock_ret.result
    /\ FoundOther
    /\ Unexpired(lock_ret.filename)
    /\ Get(locks, lock_ret.filename) = lock_ret.found
    /\ \E k \in Keys \ {lock_ret.filename} : Unexpired(k)

----------------------------------------------------------------------------
(* Claims about the lock endpoint, checked under SpecLockEndpoint *)

\* The last response denies an acquire whose try_acquire_lock found the key
\* held, unexpired, by another session.
DeniedByOther ==
    /\ IsSome(lock_resp)
    /\ ~Unwrap(lock_resp).locked
    /\ IsSome(Unwrap(lock_resp).found)
    /\ Unwrap(Unwrap(lock_resp).found).session_id # Unwrap(lock_resp).session_id

\* C25 as stated: every such denial carries the remaining seconds of the
\* lock that caused it.
C25_DenialCarriesHint ==
    [][(lock_resp' # lock_resp /\ DeniedByOther')
       => Unwrap(lock_resp').expires_in_secs =
              Some(SaturatingSince(Unwrap(Unwrap(lock_resp').found).expires_at, instant))]_vars

\* C25, amended: a denial carries the remaining seconds of the entry the map
\* holds for the key when the response is built, after try_acquire_lock has
\* returned: those of the lock that caused the denial when that entry is
\* still in the map (0 when it has expired in between), those of a newer
\* lock when the key was released and acquired again, and no hint at all
\* when the entry was released or purged in between.
C25_HintFromLaterRead ==
    [][(lock_resp' # lock_resp /\ DeniedByOther')
       => LET resp == Unwrap(lock_resp')
              entry == Get(locks, resp.filename)
          IN  /\ IsSome(entry) <=> IsSome(resp.expires_in_secs)
              /\ IsSome(entry) =>
                     /\ Unwrap(entry).expires_at > instant
                        => Unwrap(resp.expires_in_secs) = Unwrap(entry).expires_at - instant
                     /\ Unwrap(entry).expires_at <= instant
                        => Unwrap(resp.expires_in_secs) = 0
              /\ entry = resp.found
                 => resp.expires_in_secs =
                        Some(SaturatingSince(Unwrap(resp.found).expires_at, instant))]_vars

\* A denial caused by another session's unexpired lock was answered without
\* a hint, because that lock was released before the response was built.
C25_Witness ==
    /\ DeniedByOther
    /\ Unwrap(lock_resp).expires_in_secs = NoneOpt
    /\ Unwrap(lock_resp).reason = "Image is being edited by another user"

----------------------------------------------------------------------------
(* Claims about the current slot, checked under SpecWorker *)

\* The job in the current slot, when its status is the given one.
CurrentHas(status) ==
    /\ IsSome(flash_queue.current_job)
    /\ Unwrap(flash_queue.current_job).status = status

----------------------------------------------------------------------------
(* Claims about the containers of the flash queue, checked under SpecQueue *)

\* The ids of the jobs in a sequence of jobs.
IdsOf(jobs) == {jobs[i].job_id : i \in 1..Len(jobs)}

\* The ids of the job in the current slot: one or none.
CurrentIds ==
    IF IsSome(flash_queue.current_job)
    THEN {Unwrap(flash_queue.current_job).job_id}
    ELSE {}

\* C27: every job id is held at most once and in at most one of the current
\* slot, the waiting list and the retained list; the waiting list holds only
\* Queued jobs, in strictly increasing id order; a Flashing job is only in
\* the current slot; the retained list holds only terminal jobs.
C27_Containers ==
    /\ Cardinality(IdsOf(flash_queue.queue)) = Len(flash_queue.queue)
    /\ Cardinality(IdsOf(flash_queue.recent_jobs)) = Len(flash_queue.recent_jobs)
    /\ CurrentIds \cap IdsOf(flash_queue.queue) = {}
    /\ CurrentIds \cap IdsOf(flash_queue.recent_jobs) = {}
    /\ IdsOf(flash_queue.queue) \cap IdsOf(flash_queue.recent_jobs) = {}
    /\ \A i \in 1..Len(flash_queue.queue) :
           /\ flash_queue.queue[i].status = "Queued"
           /\ \A j \in 1..Len(flash_queue.queue) :
                  i < j => flash_queue.queue[i].job_id < flash_queue.queue[j].job_id
    /\ \A i \in 1..Len(flash_queue.recent_jobs) :
           flash_queue.recent_jobs[i].status \in {"Completed", "Failed"}

\* Every job issued is held: the first, terminal, in the retained list and
\* the second, Flashing, in the current slot, with nothing waiting.
C27_Witness ==
    /\ IsSome(flash_queue.current_job)
    /\ Unwrap(flash_queue.current_job).status = "Flashing"
    /\ Unwrap(flash_queue.current_job).job_id = MaxJobs
    /\ flash_queue.queue = <<>>
    /\ Len(flash_queue.recent_jobs) >= 1

----------------------------------------------------------------------------
(* Claims about the worker's job and about enqueue, checked under SpecWorker
   and SpecWorkerLive *)

\* C28: from the dequeue that hands a job to the worker until the worker
\* marks it, the current slot holds exactly that job, with status Flashing,
\* and the mark that follows makes that job terminal with the worker's
\* result, in the slot, and changes no other job.
C28_MarkAppliesToDequeued ==
    /\ [](worker_pc \in {"exec", "lock_mark", "mark"}
          => (/\ IsSome(worker_job)
              /\ flash_queue.current_job = worker_job
              /\ Unwrap(worker_job).status = "Flashing"))
    /\ [][worker_pc = "mark" /\ worker_pc' # "mark"
          => (/\ IsSome(flash_queue'.current_job)
              /\ Unwrap(flash_queue'.current_job).job_id = Unwrap(worker_job).job_id
              /\ Unwrap(flash_queue'.current_job).status =
                     (IF Unwrap(worker_result).ok THEN "Completed" ELSE "Failed")
              /\ flash_queue'.queue = flash_queue.queue
              /\ flash_queue'.recent_jobs = flash_queue.recent_jobs)]_vars

\* The worker has marked the second job it dequeued as Failed while the
\* first one is retained.
C28_Witness ==
    /\ worker_pc = "lock_poll"
    /\ IsSome(worker_job)
    /\ Unwrap(worker_job).job_id = 2
    /\ IsSome(flash_queue.current_job)
    /\ Unwrap(flash_queue.current_job).job_id = 2
    /\ Unwrap(flash_queue.current_job).status = "Failed"
    /\ Len(flash_queue.recent_jobs) = 1

\* C29: an enqueue appends exactly one job, Queued and carrying the id the
\* counter held, at the tail of the waiting list, and advances the counter by
\* one; it leaves the current slot, the retained list and the jobs already
\* waiting as they were, and it starts no flash: the worker's position, its
\* job and the set of jobs being flashed do not change.
C29_EnqueueFrame ==
    [][issued' # issued
       => (/\ Len(flash_queue'.queue) = Len(flash_queue.queue) + 1
           /\ SubSeq(flash_queue'.queue, 1, Len(flash_queue.queue)) = flash_queue.queue
           /\ flash_queue'.queue[Len(flash_queue'.queue)].status = "Queued"
           /\ flash_queue'.queue[Len(flash_queue'.queue)].job_id = flash_queue.next_job_id
           /\ flash_queue'.queue[Len(flash_queue'.queue)].started_at = NoneOpt
           /\ flash_queue'.next_job_id = flash_queue.next_job_id + 1
           /\ flash_queue'.current_job = flash_queue.current_job
           /\ flash_queue'.recent_jobs = flash_queue.recent_jobs
           /\ UNCHANGED <<started, flashing, worker_pc, worker_job>>)]_vars

\* The last call was an enqueue that found the slot empty, nothing waiting
\* and the worker asleep: its job waits, alone, and nothing is flashing.
C29_Witness ==
    /\ queue_ret.op = "enqueue"
    /\ worker_pc = "sleep"
    /\ flash_queue.current_job = NoneOpt
    /\ Len(flash_queue.queue) = 1
    /\ flash_queue.queue[1].job_id = Unwrap(queue_ret.job_id)
    /\ flashing = {}

\* A terminal job with this id is held, in the slot or in the retained list,
\* and its retention window has elapsed.
Overdue(id) ==
    /\ Finished(id)
    /\ is_expired(Unwrap(find_job(flash_queue, id)), now_ms)

\* C30: as long as the worker loop keeps iterating, a terminal job whose
\* retention window has elapsed is discarded: whenever some held job is
\* overdue, a state follows in which no held job is, and a job that is
\* overdue stays so until it is no longer held.
C30_TerminalDiscarded ==
    /\ (\E id \in 1..MaxJobs : Overdue(id)) ~> (\A id \in 1..MaxJobs : ~Overdue(id))
    /\ [][\A id \in 1..MaxJobs :
              Overdue(id) => (Overdue(id)' \/ ~IsSome(find_job(flash_queue, id))')]_vars

\* Both jobs were flashed, the first was discarded after its window elapsed
\* and is not found any more; the second, finished later, is still held.
C30_Witness ==
    /\ started = <<1, 2>>
    /\ ~IsSome(find_job(flash_queue, 1))
    /\ Finished(2)
    /\ ~Overdue(2)

----------------------------------------------------------------------------
(* Claims about failures in the cache scan and the cache worker, checked
   under SpecCacheFaulty and SpecCacheLive *)

\* The images whose request was dropped because its send failed.
DroppedImages == {scan_dropped[k].image : k \in 1..Len(scan_dropped)}

\* C31: a send that fails during the scan is dropped and nothing else
\* happens: the scan goes on with the next entry, the request is neither
\* buffered nor sent again, every image that lacked its cache file is still
\* visited, its request either accepted or dropped, exactly once, and the
\* scan runs to its normal end.
C31_FailedSendDropped ==
    /\ [][scan_dropped' # scan_dropped
          => (/\ scan_pc' = "scan"
              /\ scan_pos' = scan_pos + 1
              /\ UNCHANGED <<cache_sent, cache_chan, cache_rx, cache_senders>>)]_vars
    /\ [](/\ Cardinality(SentImages \cup DroppedImages)
               = Len(cache_sent) + Len(scan_dropped)
          /\ scan_pc = "done" => SentImages \cup DroppedImages = cache_missing0)
    /\ <>(scan_pc = "done")

\* The scan has ended normally after sends that were accepted and several
\* sends that failed.
C31_Witness ==
    /\ scan_pc = "done"
    /\ Len(cache_sent) >= 1
    /\ Len(scan_dropped) >= 2

\* C32: the worker outlives every outcome.  A request whose transform
\* returns an error or whose blocking task panics leaves the worker ready to
\* receive, with the receiver open; every request sent is handled to some
\* outcome as long as the worker keeps running; and the receiver is closed
\* only when every sender has been dropped and nothing is buffered or in
\* work.
C32_WorkerSurvives ==
    /\ [][cache_results' # cache_results
          => (/\ cache_rx' = "open"
              /\ cache_busy' = NoneOpt
              /\ cache_chan' = cache_chan)]_vars
    /\ [](cache_rx = "closed"
          => (/\ cache_senders = {}
              /\ cache_chan = <<>>
              /\ cache_busy = NoneOpt
              /\ Len(cache_results) = Len(cache_sent)))
    /\ <>[](Len(cache_results) = Len(cache_sent))

\* The worker has handled a request that ended in an error and one whose
\* blocking task panicked, and a later one with success.
C32_Witness ==
    /\ \E i, j, k \in 1..Len(cache_results) :
           /\ i < k /\ j < k
           /\ cache_results[i] = "error"
           /\ cache_results[j] = "panic"
           /\ cache_results[k] = "ok"
    /\ cache_rx = "open"

----------------------------------------------------------------------------
(* Claims about the fields of a job and about starting a job, checked under
   SpecQueue and SpecWorker *)

\* C33: for every job held, started_at is set exactly when its status is not
\* Queued, finished_at exactly when it is Completed or Failed, error_message
\* exactly when it is Failed, and, the clock never going back,
\* created_at <= started_at <= finished_at.
C33_JobFields ==
    \A job \in HeldJobs :
        /\ IsSome(job.started_at) <=> job.status # "Queued"
        /\ IsSome(job.finished_at) <=> job.status \in {"Completed", "Failed"}
        /\ IsSome(job.error_message) <=> job.status = "Failed"
        /\ IsSome(job.started_at) => job.created_at <= Unwrap(job.started_at)
        /\ IsSome(job.finished_at) => Unwrap(job.started_at) <= Unwrap(job.finished_at)

\* A Failed job that was created, started and finished at three different
\* readings of the clock is held while another job waits.
C33_Witness ==
    /\ \E job \in HeldJobs :
           /\ job.status = "Failed"
           /\ job.created_at < Unwrap(job.started_at)
           /\ Unwrap(job.started_at) < Unwrap(job.finished_at)
    /\ \E job \in HeldJobs : job.status = "Queued"

\* The ids dequeue has returned.
StartedIds == {started[i] : i \in 1..Len(started)}

\* C34: a job id is returned by at most one dequeue call; a job that has
\* left the waiting list is never in it again; and the command is invoked
\* only for the job of the latest dequeue, within the one run of
\* execute_flash that follows it: once, or twice for a flash_twice job.
C34_StartedOnce ==
    /\ [](/\ Cardinality(StartedIds) = Len(started)
          /\ StartedIds \cap IdsOf(flash_queue.queue) = {}
          /\ worker_pc \in {"exec", "lock_mark", "mark"}
             => Unwrap(worker_job).job_id = started[Len(started)])
    /\ [][outcomes' # outcomes /\ outcomes' # <<>>
          => (/\ worker_pc = "exec"
              /\ UNCHANGED <<worker_job, started>>
              /\ Len(outcomes') <= (IF Unwrap(worker_job).flash_twice THEN 2 ELSE 1))]_vars

\* Both jobs have been started, the first one failed and is retained, and
\* the second one is handed to the command.
C34_Witness ==
    /\ started = <<1, 2>>
    /\ worker_pc = "exec"
    /\ Len(flash_queue.recent_jobs) = 1
    /\ flash_queue.recent_jobs[1].status = "Failed"
    /\ flash_queue.queue = <<>>

----------------------------------------------------------------------------
(* Claims about queue positions, checked under SpecWorker and SpecSubmit *)

\* C35: the position of a job only moves forward.  Between two successive
\* states the position get_position reports for a job that has one does not
\* increase, and only the job just enqueued gains one; a dequeue that returns
\* a job lowers the position of every job that was waiting by exactly one;
\* an enqueue leaves the position of every job that had one as it was.
C35_PositionsMoveForward ==
    [][\A id \in 1..MaxJobs :
         LET p == get_position(flash_queue, id)
             q == get_position(flash_queue', id)
         IN  /\ (IsSome(p) /\ IsSome(q)) => Unwrap(q) <= Unwrap(p)
             /\ (~IsSome(p) /\ IsSome(q))
                => (issued' = Append(issued, id) /\ q = Some(Len(flash_queue'.queue)))
             /\ (started' # started /\ Position(flash_queue.queue, id) # 0)
                => q = Some(Unwrap(p) - 1)
             /\ (issued' # issued /\ IsSome(p)) => q = p]_vars

\* The last call was a dequeue that returned the first job while the second
\* was waiting behind it: the first is at position 0 and the second at 1.
C35_Witness ==
    /\ queue_ret.op = "dequeue"
    /\ queue_ret.job_id = Some(1)
    /\ get_position(flash_queue, 1) = Some(0)
    /\ get_position(flash_queue, 2) = Some(1)

\* C36: the position the flash endpoint reports for the job it has just
\* enqueued is the length of the waiting list right after the enqueue, which
\* is at least 1, whatever the worker does around the request; the fallback
\* position 0 is never reported.
C36_ReportedPosition ==
    /\ [][issued' # issued
          => (/\ flash_ret'.endpoint = "flash"
              /\ flash_ret'.status = 200
              /\ flash_ret'.job_id = Some(issued'[Len(issued')])
              /\ flash_ret'.queue_position = Some(Len(flash_queue'.queue))
              /\ Unwrap(flash_ret'.queue_position) >= 1)]_vars
    /\ []((flash_ret.endpoint = "flash" /\ flash_ret.status = 200)
          => Unwrap(flash_ret.queue_position) >= 1)

\* The endpoint has just answered for the second job with position 1, the
\* slot and the waiting list were empty before, and the worker, which slept,
\* is about to poll.
C36_Witness ==
    /\ queue_ret.op = "enqueue"
    /\ flash_ret.status = 200
    /\ flash_ret.job_id = Some(2)
    /\ flash_ret.queue_position = Some(1)
    /\ worker_pc \in {"lock_poll", "poll"}
    /\ Len(flash_queue.recent_jobs) = 1

----------------------------------------------------------------------------
(* Claims about the unlock endpoint, checked under SpecUnlock *)

\* The last unlock request came from a session that does not own the entry
\* release_lock found for the key.
UnlockByOther ==
    /\ IsSome(unlock_resp)
    /\ IsSome(Unwrap(unlock_resp).found)
    /\ Unwrap(Unwrap(unlock_resp).found).session_id # Unwrap(unlock_resp).session_id

\* C37 as stated: a release attempt by a session that does not own the lock
\* is answered with success = false, and success = true is returned only
\* when the lock was removed or was already absent.
C37_ReportsOutcome ==
    /\ UnlockByOther => ~Unwrap(unlock_resp).success
    /\ (IsSome(unlock_resp) /\ Unwrap(unlock_resp).success) => ~UnlockByOther

\* C37, amended: the unlock endpoint answers success = true for every request
\* with a valid file name and success = false only for a name that is
\* rejected; the answer does not tell whether the lock was released.  The
\* lock is removed when the requester owns it and is left as it was, owner
\* and expiry included, when another session owns it, and this request too
\* is answered with success = true.
C37_SuccessForValidName ==
    [][unlock_resp' # unlock_resp
       => LET resp == Unwrap(unlock_resp')
          IN  /\ resp.success <=> IsSome(resp.filename)
              /\ resp.found = (IF IsSome(resp.filename)
                               THEN Get(locks, Unwrap(resp.filename)) ELSE NoneOpt)
              /\ IF /\ IsSome(resp.found)
                    /\ Unwrap(resp.found).session_id = resp.session_id
                 THEN Unwrap(resp.filename) \notin DOMAIN locks'
                 ELSE locks' = locks]_vars

\* An unlock request by a session that does not own the lock was answered
\* with success = true, and the lock, unexpired, is still held by its owner.
C37_Witness ==
    /\ UnlockByOther
    /\ Unwrap(unlock_resp).success
    /\ Unexpired(Unwrap(Unwrap(unlock_resp).filename))
    /\ Get(locks, Unwrap(Unwrap(unlock_resp).filename)) = Unwrap(unlock_resp).found

----------------------------------------------------------------------------
(* Claims about the purge of expired locks, checked under SpecLocks *)

\* A step that is a call of try_acquire_lock or verify_lock_ownership on the
\* key filename.
PurgingCall(filename) ==
    \/ \E s \in Sessions, r \in BOOLEAN : TryAcquireLock(filename, s, r)
    \/ \E s \in Sessions : VerifyLockOwnership(filename, s)

\* C38: a call of try_acquire_lock or verify_lock_ownership on a key leaves
\* every unexpired entry of another key in the map with its owner and its
\* expiry, whatever the call returns; the entries of other keys it removes
\* are those whose expiry has passed, and it removes all of them.
C38_PurgeFrame ==
    [][\A filename \in Keys : \A k \in Keys \ {filename} :
         PurgingCall(filename)
         => (/\ Unexpired(k) => (k \in DOMAIN locks' /\ locks'[k] = locks[k])
             /\ Expired(k) => k \notin DOMAIN locks'
             /\ k \notin DOMAIN locks => k \notin DOMAIN locks')]_vars

\* The last call, on one key, returned false, and the other key's entry,
\* unexpired but past half of its time, is still in the map.
C38_Witness ==
    /\ lock_ret.op \in {"try_acquire_lock", "verify_lock_ownership"}
    /\ ~lock_ret.result
    /\ \E k \in Keys \ {lock_ret.filename} :
           /\ Unexpired(k)
           /\ locks[k].expires_at <= instant + TickSecs
    /\ lock_ret.at = instant

----------------------------------------------------------------------------
(* Claims about the order of the retained list, checked under SpecQueue *)

\* The finish time of the i-th retained job.
RetainedFinish(i) == Unwrap(flash_queue.recent_jobs[i].finished_at)

====
